---- MODULE Spec2Model ----
(***************************************************************************)
(* A model of the ReadLater application: the IndexedDB-backed              *)
(* StorageService (src/src/services/storageService.ts) and the views that  *)
(* drive it.                                                               *)
(*                                                                         *)
(* JavaScript objects are functions from field names to values, so an      *)
(* optional field is a name outside DOMAIN, and the spread {...a, id} is   *)
(* ("id" :> id) @@ a.  Text is a sequence of one-character strings, so     *)
(* that toLowerCase and includes are computed character by character.      *)
(* An object store with keyPath 'id' is the set of its records.            *)
(*                                                                         *)
(* Spec is the StorageService under any caller; SearchSpec is              *)
(* searchArticles over stores of any content; AppSpec is a session of the  *)
(* page, Index with its five views, of at most MaxEvents events; FetchSpec *)
(* is RSSParser and URLToMarkdownConverter under any response of fetch,    *)
(* over feed documents and pages given as the trees DOMParser builds;      *)
(* SettingsSpec is the summarizer's settings under any sequence of saves;  *)
(* SummarizerSpec is summarizeText under any key and any response, with    *)
(* the view that calls it; AppLiveSpec is AppSpec where every request in   *)
(* flight settles.                                                         *)
(***************************************************************************)
EXTENDS Integers, Sequences, FiniteSets, TLC

VARIABLES
    db,               \* StorageService.db: "null" or "open"
    opening,          \* indexedDB.open requests of init() still in flight
    idbVersion,       \* version of the persisted database (0: none yet)
    objectStoreNames, \* object stores of the persisted database
    feeds,            \* object store 'feeds'
    articles,         \* object store 'articles'
    highlights,       \* object store 'highlights'
    result,           \* how the last StorageService call settled
    issued,           \* history: the identifiers saveArticle has returned
    activeTab,          \* Index: the tab whose view is mounted
    currentArticle,     \* Index: the article handed to the Notes Editor
    articleToSummarize, \* Index: the article handed to the AI Summarizer
    editor,             \* NotesEditor: title, content, notes, tags, ...
    newFeedUrl,         \* RSSReader: the feed URL typed
    isLoading,          \* the mounted view's isLoading
    addFeedTask,        \* RSSReader: the addFeed call in progress
    convertedContent,   \* URLFetcher: the converted page
    summary,            \* AISummarizer: the generated summary
    savingSummary,      \* AISummarizer: handleSaveToKnowledge past its await
    apiKey,             \* AISummarizer: the OpenRouter API key typed
    error,              \* AISummarizer: the error message shown
    summarizeTask,      \* the summarizeText call in progress
    urls,               \* URLFetcher: the URLs queued for a batch
    convertTask,        \* URLFetcher: the conversion in progress
    localStorage,       \* the browser's localStorage: the settings
    lastSaved,          \* history: what the last save of each setting gave
    notice,             \* what the last event showed or left unhandled
    written,            \* history: the last addFeed's feed, items and saves
    events,             \* the events handled since the page loaded
    response,           \* what fetch(url) settles with: throws, or a response
    outcome             \* how the last parser or converter call settled

vars == <<db, opening, idbVersion, objectStoreNames, feeds, articles,
          highlights, result, issued, activeTab, currentArticle,
          articleToSummarize, editor, newFeedUrl, isLoading, addFeedTask,
          convertedContent, summary, savingSummary, written, events,
          response, outcome, apiKey, error, summarizeTask, urls,
          convertTask, localStorage, lastSaved,
          notice>>

appVars == <<activeTab, currentArticle, articleToSummarize, editor,
             newFeedUrl, isLoading, addFeedTask, convertedContent, summary,
             savingSummary, written, apiKey, error, summarizeTask, urls,
             convertTask>>

fetchVars == <<response, outcome>>

browserVars == <<localStorage, lastSaved, notice>>

storeVars == <<db, opening, idbVersion, objectStoreNames, feeds, articles,
               highlights>>

-----------------------------------------------------------------------------
(* Bounds of the model *)

\* The values `${Date.now()}_${Math.random().toString(36).substr(2, 9)}`
\* takes are 1 .. MaxStamp: the clock and the generator are the environment's.
MaxStamp == 2

\* indexedDB.open requests in flight at once
MaxOpening == 1

\* characters of a searched text and of a query
MaxLen == 2

\* items of a parsed feed
MaxItems == 2

\* highlights the Notes Editor holds
MaxHighlights == 1

\* events of a session of the application
MaxEvents == 7

\* items and entries of a feed document
MaxEntries == 2

\* blocks of the body of a page
MaxBlocks == 2

\* URLs queued for a batch conversion
MaxUrls == 1

\* custom prompts a caller saves
MaxPrompts == 1

Stamps == 1 .. MaxStamp

\* The instants Date.now() returns where it dates a record.
Clock == {1}

-----------------------------------------------------------------------------
(* Program constants *)

version == 1

StoreNames == {"feeds", "articles", "highlights", "settings"}

-----------------------------------------------------------------------------
(* Values *)

HasField(o, f) == f \in DOMAIN o

\* A plausible slip: { id, ...o }, where o's own id wins.
WithIdUnderneath(o, id) == o @@ ("id" :> id)

\* {...o, id}
WithId(o, id) == ("id" :> id) @@ o

articleId(stamp) == <<"article", stamp>>
feedId(stamp) == <<"feed", stamp>>

\* A feed and one of its articles, as an earlier session's addFeed left them.
OldFeed ==
    [id |-> feedId(0), url |-> <<"u">>, title |-> <<"D">>,
     description |-> <<>>, category |-> <<"G">>, lastUpdated |-> 0,
     updateInterval |-> 3600000]

OldArticle ==
    [id |-> articleId(0), feedId |-> feedId(0), title |-> <<"F", "o">>,
     author |-> <<>>, publishDate |-> 0, content |-> <<"x">>,
     summary |-> <<"x", ".">>, url |-> <<"u">>, isRead |-> FALSE,
     tags |-> <<>>]

\* Arguments of saveArticle: an Omit<Article,'id'> and, as Index.tsx passes
\* it, a whole Article whose own id the store overrides.
ArticleInputs ==
    { [title |-> <<"F", "o">>, publishDate |-> 1, content |-> <<"x">>,
       url |-> <<"u">>, isRead |-> FALSE, tags |-> <<>>],
      [id |-> <<"url", 1>>, title |-> <<"x">>, author |-> <<"U">>,
       publishDate |-> 1, content |-> <<"x">>, summary |-> <<"o", "F">>,
       url |-> <<"u">>, isRead |-> FALSE, tags |-> << <<"t">> >>,
       notes |-> <<"n">>, highlights |-> <<>>] }

FeedInputs ==
    { [url |-> <<"u">>, title |-> <<"D">>, description |-> <<>>,
       category |-> <<"G">>, lastUpdated |-> 1, updateInterval |-> 3600000] }

\* Arguments of updateArticle: a stored identifier or one the store never
\* issued, with a record that shares no optional field with ArticleInputs.
UpdateContents ==
    { [title |-> <<"F", "o">>, publishDate |-> 1, content |-> <<"x">>,
       url |-> <<"u">>, isRead |-> TRUE, tags |-> <<>>] }

ForeignId == <<"editor", 1>>

UpdateInputs ==
    { WithId(c, id) : c \in UpdateContents,
                      id \in {r.id : r \in articles} \cup {ForeignId} }

DeleteInputs == {r.id : r \in articles} \cup {ForeignId}

Queries == { <<"f", "O">>, <<"t">> }

-----------------------------------------------------------------------------
(* Text *)

toLowerCaseChar(c) ==
    CASE c = "F" -> "f"
      [] c = "O" -> "o"
      [] c = "T" -> "t"
      [] c = "X" -> "x"
      [] OTHER -> c

toLowerCase(s) == [i \in 1 .. Len(s) |-> toLowerCaseChar(s[i])]

\* String.prototype.includes
includes(s, q) ==
    \E i \in 0 .. (Len(s) - Len(q)) :
        \A j \in 1 .. Len(q) : s[i + j] = q[j]

-----------------------------------------------------------------------------
(* IndexedDB object-store requests *)

\* objectStore.add: a record whose key is already stored is refused.
add(table, rec) ==
    IF \E r \in table : r.id = rec.id
    THEN [err |-> "ConstraintError", table |-> table]
    ELSE [err |-> "none", table |-> table \cup {rec}]

\* A plausible slip: the stored record's fields are kept where the new
\* record has none (a merge instead of an overwrite).
putMerging(table, rec) ==
    [err |-> "none",
     table |-> {r \in table : r.id # rec.id}
               \cup {rec @@ r : r \in {x \in table : x.id = rec.id}}
               \cup (IF \E x \in table : x.id = rec.id THEN {} ELSE {rec})]

\* objectStore.put: the record replaces whatever is stored under its key.
put(table, rec) ==
    [err |-> "none", table |-> {r \in table : r.id # rec.id} \cup {rec}]

\* A plausible slip: objectStore.clear() in place of delete(id).
deleteClearing(table, id) == [err |-> "none", table |-> {}]

\* objectStore.delete
delete(table, id) ==
    [err |-> "none", table |-> {r \in table : r.id # id}]

\* objectStore.getAll
getAll(table) == table

\* onupgradeneeded: createObjectStore for each store the database lacks; a
\* store it has keeps its records.
Upgrade(names) == names \cup StoreNames

Upgraded(names, name, table) == IF name \in names THEN table ELSE {}

Settled(op, err, ret) == [op |-> op, err |-> err, ret |-> ret]

-----------------------------------------------------------------------------
(* The views' values *)

Tabs == {"rss", "fetch", "editor", "summarize", "knowledge"}

\* A value that may be null is the empty set or a singleton.
TheOne(S) == CHOOSE x \in S : TRUE

Min(a, b) == IF a < b THEN a ELSE b

\* String.prototype.substring(0, n)
substring(s, n) == SubSeq(s, 1, Min(Len(s), n))

\* '...'
Ellipsis == <<".", ".", ".">>

\* a || b on strings
OrElse(a, b) == IF a # <<>> THEN a ELSE b

\* The tags 'url-fetched' and 'AI Summary', and the tags a user types.
UrlFetched == <<"u", "f">>
AISummaryTag == <<"A", "I">>
TagInputs == {UrlFetched, <<"t">>}

\* What a user types into the title and the content of the Notes Editor.
TitleInputs == {<<"F", "o">>}
ContentInputs == {<<"x">>}

HighlightColors == {"yellow"}

\* The state of a NotesEditor that has just mounted without an article.
EditorBlank ==
    [title |-> <<>>, content |-> <<>>, notes |-> <<>>, tags |-> <<>>,
     newTag |-> <<>>, highlights |-> <<>>, selectedText |-> <<>>]

\* RSSParser.fetchAndParse: the i-th item of the feed.
Item(i) ==
    [title |-> <<"I", ToString(i)>>, link |-> <<"l", ToString(i)>>,
     description |-> <<"d", ToString(i)>>, pubDate |-> i, author |-> <<>>]

FeedData(n) ==
    [title |-> <<"D">>, description |-> <<>>, items |-> [i \in 1 .. n |-> Item(i)]]

\* No addFeed is running.
Idle ==
    [pc |-> "idle", feedData |-> FeedData(0), url |-> <<>>, feedId |-> <<>>,
     pos |-> 1, mounted |-> FALSE]

\* URLToMarkdownConverter.convertURL: the page converted.
Converted ==
    [title |-> <<"P">>, markdown |-> <<"m">>,
     metadata |-> [title |-> <<"P">>, author |-> <<>>, url |-> <<"u">>]]

\* AISummarizerService.summarizeText: the summary generated.
Generated == <<"s">>

(* AISummarizerService: the settings *)

\* The keys of localStorage the service reads and writes.
StorageKeys ==
    {"openrouter_api_key", "preferred_ai_model", "custom_prompts",
     "selected_prompt"}

\* A storage is a function from the keys to what getItem returns: null
\* (the empty set) or the text stored.
NoEntries == [key \in StorageKeys |-> {}]

getItem(storage, key) == storage[key]

setItem(storage, key, value) == [storage EXCEPT ![key] = {value}]

\* item || fallback: null and the empty string are falsy.
OrDefault(item, fallback) ==
    IF item = {} THEN fallback ELSE OrElse(TheOne(item), fallback)

\* No summarizeText call is running.
NotSummarizing == [pc |-> "idle"]

\* No conversion is running.
NotConverting == [pc |-> "idle"]

\* Nothing is shown: no toast of a save-to-knowledge action, no rejection
\* left unhandled, no store read of a mounting view.
Quiet == [toast |-> "none", unhandled |-> FALSE, load |-> "none"]

ViewsInit ==
    /\ activeTab = "rss"
    /\ currentArticle = {}
    /\ articleToSummarize = {}
    /\ editor = EditorBlank
    /\ newFeedUrl = <<>>
    /\ isLoading = FALSE
    /\ addFeedTask = Idle
    /\ convertedContent = {}
    /\ summary = <<>>
    /\ savingSummary = {}
    /\ written = [feedId |-> <<>>, items |-> <<>>, saved |-> <<>>]
    /\ events = 0
    /\ error = <<>>
    /\ summarizeTask = NotSummarizing
    /\ urls = <<>>
    /\ convertTask = NotConverting

\* No page or feed is being fetched.
FetcherIdle ==
    /\ response = [kind |-> "none"]
    /\ outcome = [op |-> "none"]

\* No setting is stored and nothing has been shown.
NoSettings ==
    /\ localStorage = NoEntries
    /\ lastSaved = NoEntries
    /\ apiKey = <<>>
    /\ notice = Quiet

-----------------------------------------------------------------------------
(* StorageService *)

\* The database the browser holds when the page loads: none yet, or the one
\* an earlier session left.
Persisted ==
    /\ \/ /\ idbVersion = 0
          /\ objectStoreNames = {}
          /\ feeds = {}
          /\ articles = {}
       \/ /\ idbVersion = version
          /\ objectStoreNames = StoreNames
          /\ feeds = {OldFeed}
          /\ articles = {OldArticle}
    /\ highlights = {}

Init ==
    /\ db = "null"
    /\ opening = 0
    /\ Persisted
    /\ result = Settled("none", "none", <<>>)
    /\ issued = {r.id : r \in articles}
    /\ ViewsInit
    /\ FetcherIdle
    /\ NoSettings

\* init(): indexedDB.open is requested.
InitCall ==
    /\ opening < MaxOpening
    /\ opening' = opening + 1
    /\ UNCHANGED <<db, idbVersion, objectStoreNames, feeds, articles,
                   highlights, result, issued>>
    /\ UNCHANGED <<appVars, events, fetchVars, browserVars>>

\* A plausible slip: the upgrade handler recreates the stores at every open.
InitSuccessRecreates ==
    /\ opening > 0
    /\ opening' = opening - 1
    /\ db' = "open"
    /\ idbVersion' = version
    /\ objectStoreNames' = StoreNames
    /\ feeds' = {}
    /\ articles' = {}
    /\ highlights' = {}
    /\ result' = Settled("init", "none", <<>>)
    /\ UNCHANGED issued
    /\ UNCHANGED <<appVars, events, fetchVars, browserVars>>

\* request.onupgradeneeded (a database older than `version`), then
\* request.onsuccess.
InitSuccess ==
    /\ opening > 0
    /\ opening' = opening - 1
    /\ db' = "open"
    /\ idbVersion' = version
    /\ IF idbVersion < version
       THEN /\ objectStoreNames' = Upgrade(objectStoreNames)
            /\ feeds' = Upgraded(objectStoreNames, "feeds", feeds)
            /\ articles' = Upgraded(objectStoreNames, "articles", articles)
            /\ highlights' =
                  Upgraded(objectStoreNames, "highlights", highlights)
       ELSE UNCHANGED <<objectStoreNames, feeds, articles, highlights>>
    /\ result' = Settled("init", "none", <<>>)
    /\ UNCHANGED issued
    /\ UNCHANGED <<appVars, events, fetchVars, browserVars>>

\* request.onerror
InitError ==
    /\ opening > 0
    /\ opening' = opening - 1
    /\ result' = Settled("init", "OpenError", <<>>)
    /\ UNCHANGED <<db, idbVersion, objectStoreNames, feeds, articles,
                   highlights, issued>>
    /\ UNCHANGED <<appVars, events, fetchVars, browserVars>>

\* A plausible slip: the `if (!this.db)` guard is missing.
RequestUnguarded(out) == [err |-> out.err, table |-> out.table]

\* The outcome of a request on a table: rejected while this.db is null, else
\* what the object store answers.
Request(out) ==
    IF db = "null" THEN [err |-> "NotInitialized", table |-> out.old]
    ELSE [err |-> out.err, table |-> out.table]

saveArticleOut(article, stamp) ==
    LET id == articleId(stamp)
        fullArticle == WithId(article, id)
        out == Request([old |-> articles] @@ add(articles, fullArticle))
    IN [err |-> out.err, table |-> out.table,
        ret |-> IF out.err = "none" THEN id ELSE <<>>]

saveArticle(article) ==
    \E stamp \in Stamps :
        LET out == saveArticleOut(article, stamp) IN
        /\ articles' = out.table
        /\ result' = Settled("saveArticle", out.err, out.ret)
        /\ issued' = IF out.err = "none" THEN issued \cup {out.ret}
                     ELSE issued
        /\ UNCHANGED <<db, opening, idbVersion, objectStoreNames, feeds,
                       highlights>>
        /\ UNCHANGED <<appVars, events, fetchVars, browserVars>>

getArticlesOut ==
    LET out == Request([old |-> {}, err |-> "none",
                        table |-> getAll(articles)])
    IN [err |-> out.err, ret |-> out.table]

getArticles ==
    LET out == getArticlesOut IN
    /\ result' = Settled("getArticles", out.err, out.ret)
    /\ UNCHANGED <<storeVars, issued>>
    /\ UNCHANGED <<appVars, events, fetchVars, browserVars>>

updateArticleOut(article) ==
    Request([old |-> articles] @@ put(articles, article))

updateArticle(article) ==
    LET out == updateArticleOut(article) IN
    /\ articles' = out.table
    /\ result' = Settled("updateArticle", out.err, <<>>)
    /\ UNCHANGED <<db, opening, idbVersion, objectStoreNames, feeds,
                   highlights, issued>>
    /\ UNCHANGED <<appVars, events, fetchVars, browserVars>>

deleteArticleOut(id) ==
    Request([old |-> articles] @@ delete(articles, id))

deleteArticle(id) ==
    LET out == deleteArticleOut(id) IN
    /\ articles' = out.table
    /\ result' = Settled("deleteArticle", out.err, <<>>)
    /\ UNCHANGED <<db, opening, idbVersion, objectStoreNames, feeds,
                   highlights, issued>>
    /\ UNCHANGED <<appVars, events, fetchVars, browserVars>>

saveFeedOut(feed, stamp) ==
    LET id == feedId(stamp)
        fullFeed == WithId(feed, id)
        out == Request([old |-> feeds] @@ add(feeds, fullFeed))
    IN [err |-> out.err, table |-> out.table,
        ret |-> IF out.err = "none" THEN id ELSE <<>>]

saveFeed(feed) ==
    \E stamp \in Stamps :
        LET out == saveFeedOut(feed, stamp) IN
        /\ feeds' = out.table
        /\ result' = Settled("saveFeed", out.err, out.ret)
        /\ UNCHANGED <<db, opening, idbVersion, objectStoreNames, articles,
                       highlights, issued>>
        /\ UNCHANGED <<appVars, events, fetchVars, browserVars>>

getFeedsOut ==
    LET out == Request([old |-> {}, err |-> "none",
                        table |-> getAll(feeds)])
    IN [err |-> out.err, ret |-> out.table]

getFeeds ==
    LET out == getFeedsOut IN
    /\ result' = Settled("getFeeds", out.err, out.ret)
    /\ UNCHANGED <<storeVars, issued>>
    /\ UNCHANGED <<appVars, events, fetchVars, browserVars>>

\* A plausible slip: the fields are compared as they are stored.
MatchesCaseSensitive(article, lowercaseQuery) ==
    \/ includes(article.title, lowercaseQuery)
    \/ includes(article.content, lowercaseQuery)
    \/ /\ HasField(article, "summary")
       /\ includes(article.summary, lowercaseQuery)
    \/ \E i \in 1 .. Len(article.tags) :
          includes(article.tags[i], lowercaseQuery)

\* The filter of searchArticles.
Matches(article, lowercaseQuery) ==
    \/ includes(toLowerCase(article.title), lowercaseQuery)
    \/ includes(toLowerCase(article.content), lowercaseQuery)
    \/ /\ HasField(article, "summary")
       /\ includes(toLowerCase(article.summary), lowercaseQuery)
    \/ \E i \in 1 .. Len(article.tags) :
          includes(toLowerCase(article.tags[i]), lowercaseQuery)

searchArticlesOut(query) ==
    LET got == getArticlesOut
        lowercaseQuery == toLowerCase(query)
    IN IF got.err # "none" THEN got
       ELSE [err |-> "none",
             ret |-> {a \in got.ret : Matches(a, lowercaseQuery)}]

searchArticles(query) ==
    LET out == searchArticlesOut(query) IN
    /\ result' = Settled("searchArticles", out.err, out.ret)
    /\ UNCHANGED <<storeVars, issued>>
    /\ UNCHANGED <<appVars, events, fetchVars, browserVars>>

\* A call of a StorageService operation other than init, by any caller.
StoreCall ==
    \/ \E a \in ArticleInputs : saveArticle(a)
    \/ getArticles
    \/ \E a \in UpdateInputs : updateArticle(a)
    \/ \E id \in DeleteInputs : deleteArticle(id)
    \/ \E f \in FeedInputs : saveFeed(f)
    \/ getFeeds
    \/ \E q \in Queries : searchArticles(q)

Next ==
    \/ InitCall
    \/ InitSuccess
    \/ InitError
    \/ StoreCall

Spec == Init /\ [][Next]_vars

-----------------------------------------------------------------------------
(* AISummarizerService *)

\* 'anthropic/claude-3-haiku' and 'default'
DefaultModel == <<"anthropic/claude-3-haiku">>
DefaultPromptId == <<"default">>

\* JSON.stringify of a list of prompts: the text holds, between brackets,
\* the three fields of each prompt between braces.
RECURSIVE stringifyEach(_)
stringifyEach(prompts) ==
    IF prompts = <<>> THEN <<>>
    ELSE <<"{", Head(prompts).id, Head(prompts).name, Head(prompts).content,
           "}">> \o stringifyEach(Tail(prompts))

JSON_stringify(prompts) == <<"[">> \o stringifyEach(prompts) \o <<"]">>

\* JSON.parse of a text JSON.stringify has written
JSON_parse(text) ==
    [i \in 1 .. (Len(text) - 2) \div 5 |->
        [id |-> text[5 * i - 2], name |-> text[5 * i - 1],
         content |-> text[5 * i]]]

saveApiKeyOut(storage, key) == setItem(storage, "openrouter_api_key", key)

getApiKey(storage) ==
    OrDefault(getItem(storage, "openrouter_api_key"), <<>>)

savePreferredModelOut(storage, model) ==
    setItem(storage, "preferred_ai_model", model)

getPreferredModel(storage) ==
    OrDefault(getItem(storage, "preferred_ai_model"), DefaultModel)

saveCustomPromptsOut(storage, prompts) ==
    setItem(storage, "custom_prompts", JSON_stringify(prompts))

\* saved ? JSON.parse(saved) : []
getCustomPrompts(storage) ==
    LET saved == getItem(storage, "custom_prompts") IN
    IF saved = {} \/ TheOne(saved) = <<>> THEN <<>>
    ELSE JSON_parse(TheOne(saved))

saveSelectedPromptOut(storage, promptId) ==
    setItem(storage, "selected_prompt", promptId)

getSelectedPrompt(storage) ==
    OrDefault(getItem(storage, "selected_prompt"), DefaultPromptId)

\* A call that failed with an Error of the given message.
Failed(err, message) == [err |-> err, message |-> message]

\* 'No summary generated'
NoSummary == <<"No summary generated">>

\* What fetch settles with for the request to OpenRouter: it throws, or it
\* returns a response of a 2xx status (ok) or of another status, with the
\* status text the server sent and a body.
Statuses ==
    {[ok |-> TRUE, statusText |-> <<"OK">>],
     [ok |-> FALSE, statusText |-> <<"Unauthorized">>],
     [ok |-> FALSE, statusText |-> <<>>]}

\* The values a body parses to: an object is a function from its fields,
\* an array a sequence.  The summaries generated are Generated and ''.
Choices ==
    {<<>>,
     << [index |-> 0] >>,
     << [index |-> 0, message |-> [role |-> "assistant"]] >>,
     << [index |-> 0,
         message |-> [role |-> "assistant", content |-> <<>>]] >>,
     << [index |-> 0,
         message |-> [role |-> "assistant", content |-> Generated]] >>}

\* A body is text that is not JSON, or the text of an object with or
\* without `choices`.
Bodies ==
    {[json |-> FALSE]}
    \cup {[json |-> TRUE, data |-> [error |-> "e"]]}
    \cup {[json |-> TRUE, data |-> [choices |-> choices]] :
             choices \in Choices}

AIResponses ==
    {[kind |-> "throws"]}
    \cup {[kind |-> "response", ok |-> status.ok,
           statusText |-> status.statusText, body |-> body] :
             status \in Statuses, body \in Bodies}

\* A plausible slip: the key is not checked before the request is made.
summarizeTextCallUnchecked(request) == [err |-> "none"]

\* summarizeText up to its await of fetch: without an API key it throws,
\* else the request is issued.
summarizeTextCall(request) ==
    IF request.apiKey = <<>>
    THEN Failed("MissingCredential", <<"API key is required">>)
    ELSE [err |-> "none"]

\* data.choices[0]?.message?.content: undefined is the empty set
firstContent(data) ==
    IF Len(data.choices) = 0 THEN {}
    ELSE LET choice == data.choices[1] IN
         IF ~HasField(choice, "message") THEN {}
         ELSE IF ~HasField(choice.message, "content") THEN {}
         ELSE {choice.message.content}

\* summarizeText from its await of fetch on, given what fetch settles with:
\* the rejection of fetch and of response.json() and the TypeError of
\* data.choices[0] are not caught.
summarizeTextOut(res) ==
    IF res.kind = "throws"
    THEN Failed("TypeError", <<"Failed to fetch">>)
    ELSE IF ~res.ok
    THEN Failed("TransportFailure",
                <<"API request failed: ">> \o res.statusText)
    ELSE IF ~res.body.json
    THEN Failed("SyntaxError", <<"Unexpected token">>)
    ELSE IF ~HasField(res.body.data, "choices")
    THEN Failed("TypeError", <<"Cannot read properties of undefined">>)
    ELSE [err |-> "none",
          ret |-> OrDefault(firstContent(res.body.data), NoSummary)]

-----------------------------------------------------------------------------
(* The application: Index and its five views, driving the store *)

\* A session is followed for MaxEvents events: clicks, keystrokes and
\* settled promises.
Count ==
    /\ events < MaxEvents
    /\ events' = events + 1
    /\ UNCHANGED fetchVars

\* An event of a handler that shows no toast of a save and leaves the
\* summarizer, the conversions and the settings alone.
Event ==
    /\ Count
    /\ notice' = Quiet
    /\ UNCHANGED <<apiKey, error, summarizeTask, urls, convertTask,
                   localStorage, lastSaved>>

\* Array.prototype.includes
arrayIncludes(arr, x) == \E i \in 1 .. Len(arr) : arr[i] = x

\* NotesEditor, useEffect on [article]: the editor shows the article it is
\* given, or nothing.
EditorLoad(cur) ==
    IF cur = {} THEN EditorBlank
    ELSE LET article == TheOne(cur) IN
         [EditorBlank EXCEPT
            !.content = article.content,
            !.notes = IF HasField(article, "notes") THEN article.notes
                      ELSE <<>>,
            !.tags = IF HasField(article, "tags") THEN article.tags ELSE <<>>,
            !.title = article.title,
            !.highlights =
                IF HasField(article, "highlights")
                THEN [i \in 1 .. Len(article.highlights) |->
                         [text |-> article.highlights[i].text,
                          color |-> article.highlights[i].color,
                          note |-> article.highlights[i].note]]
                ELSE <<>>]

\* Tabs shows the view of the active tab only: the other views are unmounted
\* and a view that mounts starts from its initial state.  An addFeed that
\* is running goes on, cut off from the view that started it.
Unmounted(task) ==
    IF task.pc = "idle" THEN task ELSE [task EXCEPT !.mounted = FALSE]

Remount(tab) ==
    /\ UNCHANGED <<localStorage, lastSaved>>
    /\ IF tab = activeTab
       THEN UNCHANGED <<activeTab, editor, newFeedUrl, isLoading,
                        addFeedTask, convertedContent, summary, apiKey,
                        error, summarizeTask, urls, convertTask>>
       ELSE /\ activeTab' = tab
            /\ editor' = IF tab = "editor" THEN EditorLoad(currentArticle')
                         ELSE EditorBlank
            /\ newFeedUrl' = <<>>
            /\ isLoading' = FALSE
            /\ addFeedTask' = [addFeedTask EXCEPT !.mounted = FALSE]
            /\ convertedContent' = {}
            /\ summary' = <<>>
            /\ apiKey' = IF tab = "summarize" THEN getApiKey(localStorage)
                         ELSE <<>>
            /\ error' = <<>>
            /\ summarizeTask' = Unmounted(summarizeTask)
            /\ urls' = <<>>
            /\ convertTask' = Unmounted(convertTask)

\* The store read of the mount effect of the view of `tab`: RSSReader calls
\* getFeeds and getArticles, KnowledgeStore getArticles; the rejection is
\* caught and logged.
MountLoad(tab) ==
    IF tab = activeTab \/ tab \notin {"rss", "knowledge"} THEN "none"
    ELSE IF getArticlesOut.err = "none" THEN "read"
    ELSE getArticlesOut.err

\* What an event shows: the toast of a save-to-knowledge action, whether
\* the promise Index dropped has rejected, and the read of the view that
\* mounts on `tab`.
Shown(toast, unhandled, tab) ==
    [toast |-> toast, unhandled |-> unhandled, load |-> MountLoad(tab)]

Shows(toast, unhandled, tab) ==
    /\ Count
    /\ notice' = Shown(toast, unhandled, tab)

\* The settlement of a promise: what is in flight when the session has had
\* its MaxEvents events still settles.
Settled_ ==
    /\ events' = events + 1
    /\ UNCHANGED fetchVars

Settle ==
    /\ Settled_
    /\ notice' = Quiet

\* The settlement of a promise of RSSReader.
addFeedSettle ==
    /\ Settle
    /\ UNCHANGED <<apiKey, error, summarizeTask, urls, convertTask,
                   localStorage, lastSaved>>

\* storageService.saveArticle(article) where the clock and the generator
\* give `stamp`.
saveArticleAt(article, stamp) ==
    LET out == saveArticleOut(article, stamp) IN
    /\ articles' = out.table
    /\ result' = Settled("saveArticle", out.err, out.ret)
    /\ issued' = IF out.err = "none" THEN issued \cup {out.ret} ELSE issued

\* A click on a tab.
setActiveTab(tab) ==
    /\ tab # activeTab
    /\ UNCHANGED <<currentArticle, articleToSummarize>>
    /\ Remount(tab)
    /\ UNCHANGED <<storeVars, result, issued, savingSummary, written>>
    /\ Shows("none", FALSE, tab)

Index_handleSendToEditor(article) ==
    /\ currentArticle' = {article}
    /\ Remount("editor")
    /\ UNCHANGED articleToSummarize

Index_handleSendToSummarizer(article) ==
    /\ articleToSummarize' = {article}
    /\ UNCHANGED currentArticle
    /\ Remount("summarize")

\* The promise of saveArticle is dropped: neither awaited nor caught.
Index_handleSaveToKnowledge(article) ==
    /\ \E stamp \in Stamps : saveArticleAt(article, stamp)
    /\ UNCHANGED <<currentArticle, articleToSummarize>>
    /\ Remount("knowledge")

(* RSSReader *)

\* A plausible slip: setIsLoading(false) is missing.
StillLoading(mounted) == isLoading

\* setIsLoading(false); the state setter of a view that has unmounted does
\* nothing.
NotLoading(mounted) == IF mounted THEN FALSE ELSE isLoading

FeedUrls == {<<"u">>}

\* The articles RSSReader lists: loadArticles keeps those of a feed.
RSSReader_articles == {r \in getArticlesOut.ret : HasField(r, "feedId")}

RSSReader_setNewFeedUrl(url) ==
    /\ activeTab = "rss"
    /\ newFeedUrl # url
    /\ newFeedUrl' = url
    /\ UNCHANGED <<storeVars, result, issued, activeTab, currentArticle,
                   articleToSummarize, editor, isLoading, addFeedTask,
                   convertedContent, summary, savingSummary, written>>
    /\ Event

\* addFeed up to its first await, RSSParser.fetchAndParse.  The button is
\* disabled while isLoading; one addFeed runs at a time.
addFeed ==
    /\ activeTab = "rss"
    /\ ~isLoading
    /\ newFeedUrl # <<>>
    /\ addFeedTask.pc = "idle"
    /\ isLoading' = TRUE
    /\ addFeedTask' = [Idle EXCEPT !.pc = "fetching", !.url = newFeedUrl,
                                   !.mounted = TRUE]
    /\ UNCHANGED <<storeVars, result, issued, activeTab, currentArticle,
                   articleToSummarize, editor, newFeedUrl, convertedContent,
                   summary, savingSummary, written>>
    /\ Event

\* The catch block and setIsLoading(false); the state setter of a view that
\* has unmounted does nothing.
addFeedFailed ==
    /\ addFeedTask' = Idle
    /\ isLoading' = NotLoading(addFeedTask.mounted)
    /\ UNCHANGED newFeedUrl

\* fetchAndParse has resolved (it resolves with the demo feed when the fetch
\* or the parse fails); saveFeed is called and awaited.
addFeedSaveFeed ==
    /\ addFeedTask.pc = "fetching"
    /\ \E n \in 0 .. MaxItems, stamp \in Stamps, now \in Clock :
          LET feedData == FeedData(n)
              out == saveFeedOut([url |-> addFeedTask.url,
                                  title |-> feedData.title,
                                  description |-> feedData.description,
                                  category |-> <<"G">>,
                                  lastUpdated |-> now,
                                  updateInterval |-> 3600000], stamp)
          IN /\ feeds' = out.table
             /\ result' = Settled("saveFeed", out.err, out.ret)
             /\ IF out.err = "none"
                THEN /\ addFeedTask' = [addFeedTask EXCEPT
                                           !.pc = "saving",
                                           !.feedData = feedData,
                                           !.feedId = out.ret]
                     /\ written' = [feedId |-> out.ret,
                                    items |-> feedData.items, saved |-> <<>>]
                     /\ UNCHANGED <<isLoading, newFeedUrl>>
                ELSE /\ addFeedFailed
                     /\ UNCHANGED written
    /\ UNCHANGED <<db, opening, idbVersion, objectStoreNames, articles,
                   highlights, issued, activeTab, currentArticle,
                   articleToSummarize, editor, convertedContent, summary,
                   savingSummary>>
    /\ addFeedSettle

\* The article addFeed stores for an item.
ItemArticle(item, id, now) ==
    [feedId |-> id, title |-> item.title, author |-> item.author,
     publishDate |-> IF item.pubDate # 0 THEN item.pubDate ELSE now,
     content |-> item.description,
     summary |-> substring(item.description, 200) \o Ellipsis,
     url |-> item.link, isRead |-> FALSE, tags |-> <<>>]

\* A plausible slip: a failed save is skipped and the loop goes on.
addFeedSaveArticleSkipping ==
    /\ addFeedTask.pc = "saving"
    /\ addFeedTask.pos <= Len(addFeedTask.feedData.items)
    /\ \E stamp \in Stamps, now \in Clock :
          /\ saveArticleAt(ItemArticle(addFeedTask.feedData.items[addFeedTask.pos],
                                       addFeedTask.feedId, now), stamp)
          /\ addFeedTask' = [addFeedTask EXCEPT !.pos = @ + 1]
          /\ written' = IF result'.err = "none"
                        THEN [written EXCEPT
                                 !.saved = Append(@, addFeedTask.pos)]
                        ELSE written
          /\ UNCHANGED <<isLoading, newFeedUrl>>
    /\ UNCHANGED <<db, opening, idbVersion, objectStoreNames, feeds,
                   highlights, activeTab, currentArticle, articleToSummarize,
                   editor, convertedContent, summary, savingSummary>>
    /\ addFeedSettle

\* One turn of the loop over feedData.items: saveArticle is awaited, and a
\* rejection leaves the loop for the catch block.
addFeedSaveArticle ==
    /\ addFeedTask.pc = "saving"
    /\ addFeedTask.pos <= Len(addFeedTask.feedData.items)
    /\ \E stamp \in Stamps, now \in Clock :
          /\ saveArticleAt(ItemArticle(addFeedTask.feedData.items[addFeedTask.pos],
                                       addFeedTask.feedId, now), stamp)
          /\ IF result'.err = "none"
             THEN /\ addFeedTask' = [addFeedTask EXCEPT !.pos = @ + 1]
                  /\ written' = [written EXCEPT
                                    !.saved = Append(@, addFeedTask.pos)]
                  /\ UNCHANGED <<isLoading, newFeedUrl>>
             ELSE /\ addFeedFailed
                  /\ UNCHANGED written
    /\ UNCHANGED <<db, opening, idbVersion, objectStoreNames, feeds,
                   highlights, activeTab, currentArticle, articleToSummarize,
                   editor, convertedContent, summary, savingSummary>>
    /\ addFeedSettle

\* After the loop: loadFeeds, loadArticles, setNewFeedUrl(''), the toast and
\* setIsLoading(false).
addFeedDone ==
    /\ addFeedTask.pc = "saving"
    /\ addFeedTask.pos > Len(addFeedTask.feedData.items)
    /\ result' = Settled("getArticles", getArticlesOut.err,
                         getArticlesOut.ret)
    /\ addFeedTask' = Idle
    /\ isLoading' = NotLoading(addFeedTask.mounted)
    /\ newFeedUrl' = IF addFeedTask.mounted THEN <<>> ELSE newFeedUrl
    /\ UNCHANGED <<storeVars, issued, activeTab, currentArticle,
                   articleToSummarize, editor, convertedContent, summary,
                   savingSummary, written>>
    /\ addFeedSettle

\* A plausible slip: the flag is toggled.
markAsReadToggling(article) ==
    LET out == updateArticleOut([article EXCEPT !.isRead = ~article.isRead])
    IN
    /\ articles' = out.table
    /\ result' = Settled("updateArticle", out.err, <<>>)

\* markAsRead up to its await: updateArticle({...article, isRead: true}).
markAsRead(article) ==
    LET out == updateArticleOut([article EXCEPT !.isRead = TRUE]) IN
    /\ articles' = out.table
    /\ result' = Settled("updateArticle", out.err, <<>>)

RSSReader_handleSendToEditor ==
    /\ activeTab = "rss"
    /\ \E article \in RSSReader_articles :
          /\ markAsRead(article)
          /\ Index_handleSendToEditor(article)
    /\ UNCHANGED <<db, opening, idbVersion, objectStoreNames, feeds,
                   highlights, issued, savingSummary, written>>
    /\ Shows("none", result'.err # "none", "editor")

RSSReader_handleSendToSummarizer ==
    /\ activeTab = "rss"
    /\ \E article \in RSSReader_articles :
          /\ markAsRead(article)
          /\ Index_handleSendToSummarizer(article)
    /\ UNCHANGED <<db, opening, idbVersion, objectStoreNames, feeds,
                   highlights, issued, savingSummary, written>>
    /\ Shows("none", result'.err # "none", "summarize")

(* URLFetcher *)

\* The URLs a user types.
UrlInputs == {<<"u">>}

fetcherFrame ==
    UNCHANGED <<storeVars, result, issued, activeTab, currentArticle,
                articleToSummarize, editor, newFeedUrl, addFeedTask,
                summary, savingSummary, written, apiKey, error,
                summarizeTask, localStorage, lastSaved>>

\* addUrl: the URL typed joins the batch unless it is there.
addUrl(url) ==
    /\ activeTab = "fetch"
    /\ Len(urls) < MaxUrls
    /\ ~arrayIncludes(urls, url)
    /\ urls' = Append(urls, url)
    /\ UNCHANGED <<isLoading, convertTask, convertedContent>>
    /\ fetcherFrame
    /\ Count
    /\ notice' = Quiet

\* convertSingleUrl up to its await of convertURL.  The buttons are disabled
\* while isLoading; one conversion is followed at a time, and one per
\* mount of the view.
convertSingleUrl ==
    /\ activeTab = "fetch"
    /\ ~isLoading
    /\ convertTask.pc = "idle"
    /\ convertedContent = {}
    /\ isLoading' = TRUE
    /\ convertTask' = [pc |-> "single", left |-> <<>>, results |-> <<>>,
                       mounted |-> TRUE]
    /\ UNCHANGED <<urls, convertedContent>>
    /\ fetcherFrame
    /\ Count
    /\ notice' = Quiet

\* convertURL has resolved (it resolves with the demo page when the fetch
\* or the conversion fails): the page is shown; editableMarkdown is the
\* markdown converted.
convertSingleUrlDone ==
    /\ convertTask.pc = "single"
    /\ convertedContent' = IF convertTask.mounted THEN {Converted}
                           ELSE convertedContent
    /\ isLoading' = NotLoading(convertTask.mounted)
    /\ convertTask' = NotConverting
    /\ UNCHANGED urls
    /\ fetcherFrame
    /\ Settle

\* convertBatchUrls up to its first await; without URLs it returns.
convertBatchUrls ==
    /\ activeTab = "fetch"
    /\ ~isLoading
    /\ convertTask.pc = "idle"
    /\ convertedContent = {}
    /\ urls # <<>>
    /\ isLoading' = TRUE
    /\ convertTask' = [pc |-> "batch", left |-> urls, results |-> <<>>,
                       mounted |-> TRUE]
    /\ UNCHANGED <<urls, convertedContent>>
    /\ fetcherFrame
    /\ Count
    /\ notice' = Quiet

\* One turn of the loop over urls: convertURL has resolved.
convertBatchUrlsNext ==
    /\ convertTask.pc = "batch"
    /\ convertTask.left # <<>>
    /\ convertTask' = [convertTask EXCEPT
                          !.left = Tail(@),
                          !.results = Append(@, Converted)]
    /\ UNCHANGED <<urls, convertedContent, isLoading>>
    /\ fetcherFrame
    /\ Settle

\* `Batch Conversion (${results.length} articles)` and the results
\* combined into one document
Combined(results) ==
    LET title == <<"B", ToString(Len(results))>>
        combine[i \in 0 .. Len(results)] ==
            IF i = 0 THEN <<>>
            ELSE combine[i - 1] \o <<"# ">> \o results[i].title
                 \o <<"\n\n">> \o results[i].markdown
                 \o <<"\n\n---\n\n">>
    IN [title |-> title, markdown |-> combine[Len(results)],
        metadata |-> [title |-> title, extractedAt |-> <<"now">>,
                      sources |-> [i \in 1 .. Len(results) |->
                                     results[i].metadata.url]]]

\* After the loop: the combined document is shown when a URL converted.
convertBatchUrlsDone ==
    /\ convertTask.pc = "batch"
    /\ convertTask.left = <<>>
    /\ convertedContent' =
          IF convertTask.mounted /\ Len(convertTask.results) > 0
          THEN {Combined(convertTask.results)}
          ELSE convertedContent
    /\ isLoading' = NotLoading(convertTask.mounted)
    /\ convertTask' = NotConverting
    /\ UNCHANGED urls
    /\ fetcherFrame
    /\ Settle

\* object.field || '' where the object may lack the field
FieldOr(object, field) ==
    IF HasField(object, field) THEN object[field] ELSE <<>>

createArticleFromContent(now) ==
    LET content == TheOne(convertedContent) IN
    [id |-> <<"url", now>>, title |-> content.title,
     author |-> OrElse(FieldOr(content.metadata, "author"), <<"U", "n">>),
     publishDate |-> now, content |-> content.markdown,
     summary |-> substring(content.markdown, 200) \o Ellipsis,
     url |-> FieldOr(content.metadata, "url"), isRead |-> FALSE,
     tags |-> <<UrlFetched>>]

\* createArticleFromContent throws while nothing is converted.
URLFetcher_handleSendToEditor ==
    /\ activeTab = "fetch"
    /\ convertedContent # {}
    /\ \E now \in Clock :
          Index_handleSendToEditor(createArticleFromContent(now))
    /\ UNCHANGED <<storeVars, result, issued, savingSummary, written>>
    /\ Shows("none", FALSE, "editor")

URLFetcher_handleSaveToKnowledge ==
    /\ activeTab = "fetch"
    /\ convertedContent # {}
    /\ \E now \in Clock :
          Index_handleSaveToKnowledge(createArticleFromContent(now))
    /\ UNCHANGED <<db, opening, idbVersion, objectStoreNames, feeds,
                   highlights, savingSummary, written>>
    /\ Shows("success", result'.err # "none", "knowledge")

(* NotesEditor *)

editorFrame ==
    /\ Event
    /\ UNCHANGED <<storeVars, result, issued, activeTab, currentArticle,
                   articleToSummarize, newFeedUrl, isLoading, addFeedTask,
                   convertedContent, summary, savingSummary, written>>

setTitle(t) ==
    /\ activeTab = "editor"
    /\ editor.title # t
    /\ editor' = [editor EXCEPT !.title = t]
    /\ editorFrame

setContent(c) ==
    /\ activeTab = "editor"
    /\ editor.content # c
    /\ editor' = [editor EXCEPT !.content = c]
    /\ editorFrame

\* A selection in the content: window.getSelection().toString().trim()
handleTextSelection ==
    /\ activeTab = "editor"
    /\ editor.content # <<>>
    /\ editor.selectedText # editor.content
    /\ editor' = [editor EXCEPT !.selectedText = editor.content]
    /\ editorFrame

\* Without a selection there is a toast only.
addHighlight(color) ==
    /\ activeTab = "editor"
    /\ Len(editor.highlights) < MaxHighlights
    /\ editor' =
          IF editor.selectedText = <<>> THEN editor
          ELSE [editor EXCEPT
                   !.highlights = Append(@, [text |-> editor.selectedText,
                                             color |-> color, note |-> <<>>]),
                   !.selectedText = <<>>]
    /\ editorFrame

setNewTag(tag) ==
    /\ activeTab = "editor"
    /\ editor.newTag # tag
    /\ editor' = [editor EXCEPT !.newTag = tag]
    /\ editorFrame

\* A plausible slip: the tag is appended whether or not the list has it.
addTagAppending ==
    /\ activeTab = "editor"
    /\ editor' =
          IF editor.newTag # <<>>
          THEN [editor EXCEPT !.tags = Append(@, editor.newTag),
                              !.newTag = <<>>]
          ELSE editor
    /\ editorFrame

addTag ==
    /\ activeTab = "editor"
    /\ editor' =
          IF editor.newTag # <<>> /\ ~arrayIncludes(editor.tags, editor.newTag)
          THEN [editor EXCEPT !.tags = Append(@, editor.newTag),
                              !.newTag = <<>>]
          ELSE editor
    /\ editorFrame

\* Each tag of the list has its own remove button.
removeTag(tagToRemove) ==
    /\ activeTab = "editor"
    /\ arrayIncludes(editor.tags, tagToRemove)
    /\ editor' = [editor EXCEPT
                     !.tags = SelectSeq(@, LAMBDA tag : tag # tagToRemove)]
    /\ editorFrame

\* The article saveToKnowledge builds; `now` is Date.now().
savedArticle(now) ==
    LET ownId == IF currentArticle # {} THEN TheOne(currentArticle).id
                 ELSE <<"editor", now>>
        given(f, default) ==
            IF currentArticle # {} /\ HasField(TheOne(currentArticle), f)
            THEN TheOne(currentArticle)[f] ELSE default
    IN [id |-> ownId, title |-> editor.title, content |-> editor.content,
        notes |-> editor.notes, tags |-> editor.tags,
        highlights |->
            [index \in 1 .. Len(editor.highlights) |->
                [id |-> <<"highlight", index - 1>>,
                 articleId |-> ownId,
                 text |-> editor.highlights[index].text,
                 color |-> editor.highlights[index].color,
                 note |-> editor.highlights[index].note,
                 position |-> index - 1]],
        author |-> OrElse(given("author", <<>>), <<"U", "s">>),
        publishDate |-> given("publishDate", now),
        summary |-> substring(editor.content, 200) \o Ellipsis,
        url |-> given("url", <<>>), isRead |-> TRUE]

\* Without a title or a content there is a toast only.
saveToKnowledge ==
    /\ activeTab = "editor"
    /\ editor.title # <<>>
    /\ editor.content # <<>>
    /\ \E now \in Clock : Index_handleSaveToKnowledge(savedArticle(now))
    /\ UNCHANGED <<db, opening, idbVersion, objectStoreNames, feeds,
                   highlights, savingSummary, written>>
    /\ Shows("success", result'.err # "none", "knowledge")

(* AISummarizer *)

summarizerFrame ==
    UNCHANGED <<storeVars, result, issued, activeTab, currentArticle,
                articleToSummarize, editor, newFeedUrl, addFeedTask,
                convertedContent, savingSummary, written, urls,
                convertTask>>

\* handleApiKeyChange: the key typed is kept and saved.
handleApiKeyChange(value) ==
    /\ activeTab = "summarize"
    /\ apiKey # value
    /\ apiKey' = value
    /\ localStorage' = saveApiKeyOut(localStorage, value)
    /\ lastSaved' = [lastSaved EXCEPT !["openrouter_api_key"] = {value}]
    /\ UNCHANGED <<isLoading, summary, error, summarizeTask>>
    /\ summarizerFrame
    /\ Count
    /\ notice' = Quiet

\* The request handleSummarize makes.
SummarizeRequest ==
    [content |-> TheOne(articleToSummarize).content, apiKey |-> apiKey]

\* handleSummarize up to its await of summarizeText: without an article or
\* without a key it sets the error and returns; what summarizeText throws
\* is caught, and setIsLoading(false) is in the finally block.  One call of
\* summarizeText is followed at a time.
handleSummarize ==
    /\ activeTab = "summarize"
    /\ summarizeTask.pc = "idle"
    /\ IF articleToSummarize = {}
       THEN /\ error' = <<"No article selected for summarization">>
            /\ UNCHANGED <<isLoading, summary, summarizeTask>>
       ELSE IF apiKey = <<>>
       THEN /\ error' = <<"Please enter your OpenRouter API key">>
            /\ UNCHANGED <<isLoading, summary, summarizeTask>>
       ELSE LET call == summarizeTextCall(SummarizeRequest) IN
            /\ summary' = <<>>
            /\ IF call.err = "none"
               THEN /\ isLoading' = TRUE
                    /\ error' = <<>>
                    /\ summarizeTask' =
                          [pc |-> "fetching", caller |-> "view",
                           request |-> SummarizeRequest, mounted |-> TRUE]
               ELSE /\ isLoading' = FALSE
                    /\ error' = call.message
                    /\ UNCHANGED summarizeTask
    /\ UNCHANGED <<apiKey, localStorage, lastSaved>>
    /\ summarizerFrame
    /\ Count
    /\ notice' = Quiet

\* A click on the button, which is disabled while isLoading or without a
\* key; a session asks for one summary of the article a view is given.
AISummarizer_onClick ==
    /\ ~isLoading
    /\ apiKey # <<>>
    /\ articleToSummarize # {}
    /\ summary = <<>>
    /\ handleSummarize

\* handleSummarize from its await on: summarizeText has settled.
handleSummarizeSettled ==
    /\ summarizeTask.pc = "fetching"
    /\ summarizeTask.caller = "view"
    /\ \E res \in AIResponses :
          LET out == summarizeTextOut(res) IN
          IF ~summarizeTask.mounted
          THEN UNCHANGED <<summary, error>>
          ELSE IF out.err = "none"
          THEN /\ summary' = out.ret
               /\ UNCHANGED error
          ELSE /\ error' = out.message
               /\ UNCHANGED summary
    /\ isLoading' = NotLoading(summarizeTask.mounted)
    /\ summarizeTask' = NotSummarizing
    /\ UNCHANGED <<apiKey, localStorage, lastSaved>>
    /\ summarizerFrame
    /\ Settle

summaryArticle(now) ==
    LET article == TheOne(articleToSummarize) IN
    [title |-> <<"A", ":">> \o article.title, author |-> <<"A">>,
     publishDate |-> now, content |-> summary,
     summary |-> substring(summary, 200) \o Ellipsis, url |-> article.url,
     isRead |-> FALSE, tags |-> <<AISummaryTag>>,
     notes |-> article.title \o <<"|">> \o article.url]

\* handleSaveToKnowledge up to its await: storageService.saveArticle is
\* called; a rejection goes to the catch block.
AISummarizer_handleSaveToKnowledge ==
    /\ activeTab = "summarize"
    /\ summary # <<>>
    /\ articleToSummarize # {}
    /\ savingSummary = {}
    /\ \E now \in Clock, stamp \in Stamps :
          /\ saveArticleAt(summaryArticle(now), stamp)
          /\ savingSummary' = IF result'.err = "none"
                              THEN {summaryArticle(now)} ELSE {}
    /\ UNCHANGED <<db, opening, idbVersion, objectStoreNames, feeds,
                   highlights, activeTab, currentArticle, articleToSummarize,
                   editor, newFeedUrl, isLoading, addFeedTask,
                   convertedContent, summary, written>>
    /\ Count
    /\ notice' = IF result'.err = "none" THEN Quiet
                 ELSE [Quiet EXCEPT !.toast = "error"]
    /\ UNCHANGED <<apiKey, error, summarizeTask, urls, convertTask,
                   localStorage, lastSaved>>

\* handleSaveToKnowledge after its await: onSaveToKnowledge(summaryArticle).
AISummarizer_onSaveToKnowledge ==
    /\ savingSummary # {}
    /\ Index_handleSaveToKnowledge(TheOne(savingSummary))
    /\ savingSummary' = {}
    /\ UNCHANGED <<db, opening, idbVersion, objectStoreNames, feeds,
                   highlights, written>>
    /\ Settled_
    /\ notice' = Shown("success", result'.err # "none", "knowledge")

(* KnowledgeStore *)

\* The articles KnowledgeStore lists.
KnowledgeStore_articles == getArticlesOut.ret

KnowledgeStore_deleteArticle ==
    /\ activeTab = "knowledge"
    /\ \E article \in KnowledgeStore_articles :
          LET out == deleteArticleOut(article.id) IN
          /\ articles' = out.table
          /\ result' = Settled("deleteArticle", out.err, <<>>)
    /\ UNCHANGED <<db, opening, idbVersion, objectStoreNames, feeds,
                   highlights, issued, appVars>>
    /\ Event

KnowledgeStore_onSendToEditor ==
    /\ activeTab = "knowledge"
    /\ \E article \in KnowledgeStore_articles :
          Index_handleSendToEditor(article)
    /\ UNCHANGED <<storeVars, result, issued, savingSummary, written>>
    /\ Shows("none", FALSE, "editor")

(* The page *)

\* The page has mounted: the effect of RSSReader has called getFeeds and
\* getArticles, and then the effect of Index storageService.init().  The
\* API key is the one an earlier session saved: without a key the
\* summarizer takes no request.
AppInit ==
    /\ db = "null"
    /\ opening = 1
    /\ Persisted
    /\ result = Settled("none", "none", <<>>)
    /\ issued = {r.id : r \in articles}
    /\ ViewsInit
    /\ FetcherIdle
    /\ localStorage = saveApiKeyOut(NoEntries, <<"k">>)
    /\ lastSaved = NoEntries
    /\ apiKey = <<>>
    /\ notice = [Quiet EXCEPT !.load = getArticlesOut.err]

AppNext ==
    \/ InitSuccess
    \/ InitError
    \/ \E tab \in Tabs : setActiveTab(tab)
    \/ \E url \in FeedUrls : RSSReader_setNewFeedUrl(url)
    \/ addFeed
    \/ addFeedSaveFeed
    \/ addFeedSaveArticle
    \/ addFeedDone
    \/ RSSReader_handleSendToEditor
    \/ RSSReader_handleSendToSummarizer
    \/ \E url \in UrlInputs : addUrl(url)
    \/ convertSingleUrl
    \/ convertSingleUrlDone
    \/ convertBatchUrls
    \/ convertBatchUrlsNext
    \/ convertBatchUrlsDone
    \/ URLFetcher_handleSendToEditor
    \/ URLFetcher_handleSaveToKnowledge
    \/ \E t \in TitleInputs : setTitle(t)
    \/ \E c \in ContentInputs : setContent(c)
    \/ handleTextSelection
    \/ \E color \in HighlightColors : addHighlight(color)
    \/ \E tag \in TagInputs : setNewTag(tag)
    \/ addTag
    \/ \E tag \in TagInputs \cup {AISummaryTag} : removeTag(tag)
    \/ saveToKnowledge
    \/ AISummarizer_onClick
    \/ handleSummarizeSettled
    \/ AISummarizer_handleSaveToKnowledge
    \/ AISummarizer_onSaveToKnowledge
    \/ KnowledgeStore_deleteArticle
    \/ KnowledgeStore_onSendToEditor

AppSpec == AppInit /\ [][AppNext]_vars

-----------------------------------------------------------------------------
(* The summarizer: its settings under any caller, summarizeText under any  *)
(* key and any response, and the view that calls it                        *)

\* The keys, model identifiers and prompt identifiers a caller passes.
KeyInputs == {<<>>, <<"k">>}
ModelInputs == {<<>>, <<"openai/gpt-4">>, DefaultModel}
PromptIdInputs == {<<>>, <<"brief">>}

\* The i-th custom prompt, and the lists of at most n prompts.
CustomPrompt(i) ==
    [id |-> "id" \o ToString(i), name |-> "name" \o ToString(i),
     content |-> "content" \o ToString(i)]

RECURSIVE PromptLists(_)
PromptLists(n) ==
    IF n = 0 THEN {<<>>}
    ELSE PromptLists(n - 1)
         \cup {Append(prompts, CustomPrompt(i)) :
                  prompts \in {l \in PromptLists(n - 1) : Len(l) = n - 1},
                  i \in 1 .. MaxPrompts}

settingsFrame ==
    UNCHANGED <<storeVars, result, issued, appVars, events, fetchVars,
                notice>>

saveApiKey(key) ==
    /\ localStorage' = saveApiKeyOut(localStorage, key)
    /\ lastSaved' = [lastSaved EXCEPT !["openrouter_api_key"] = {key}]
    /\ settingsFrame

savePreferredModel(model) ==
    /\ localStorage' = savePreferredModelOut(localStorage, model)
    /\ lastSaved' = [lastSaved EXCEPT !["preferred_ai_model"] = {model}]
    /\ settingsFrame

saveCustomPrompts(prompts) ==
    /\ localStorage' = saveCustomPromptsOut(localStorage, prompts)
    /\ lastSaved' = [lastSaved EXCEPT !["custom_prompts"] = {prompts}]
    /\ settingsFrame

saveSelectedPrompt(promptId) ==
    /\ localStorage' = saveSelectedPromptOut(localStorage, promptId)
    /\ lastSaved' = [lastSaved EXCEPT !["selected_prompt"] = {promptId}]
    /\ settingsFrame

\* The requests a caller of the service makes.
Requests == [content : ContentInputs, apiKey : KeyInputs]

serviceFrame ==
    UNCHANGED <<storeVars, result, issued, activeTab, currentArticle,
                articleToSummarize, editor, newFeedUrl, isLoading,
                addFeedTask, convertedContent, summary, savingSummary,
                written, apiKey, error, urls, convertTask, events,
                response, localStorage, lastSaved, notice>>

\* summarizeText(request), called by the service's own caller, up to its
\* await of fetch.
summarizeText(request) ==
    /\ summarizeTask.pc = "idle"
    /\ LET call == summarizeTextCall(request) IN
       IF call.err = "none"
       THEN /\ summarizeTask' = [pc |-> "fetching", caller |-> "service",
                                 request |-> request, mounted |-> FALSE]
            /\ outcome' = [op |-> "summarizeText", request |-> request,
                           err |-> "pending"]
       ELSE /\ UNCHANGED summarizeTask
            /\ outcome' = [op |-> "summarizeText", request |-> request]
                          @@ call
    /\ serviceFrame

\* summarizeText from its await of fetch on.
summarizeTextSettled ==
    /\ summarizeTask.pc = "fetching"
    /\ summarizeTask.caller = "service"
    /\ \E res \in AIResponses :
          outcome' = [op |-> "summarizeText",
                      request |-> summarizeTask.request, res |-> res]
                     @@ summarizeTextOut(res)
    /\ summarizeTask' = NotSummarizing
    /\ serviceFrame

\* The AI Summarizer has mounted, with or without an article, in a browser
\* that holds no setting yet.
SummarizerInit ==
    /\ db = "null"
    /\ opening = 0
    /\ Persisted
    /\ result = Settled("none", "none", <<>>)
    /\ issued = {r.id : r \in articles}
    /\ activeTab = "summarize"
    /\ currentArticle = {}
    /\ articleToSummarize \in {{}, {OldArticle}}
    /\ editor = EditorBlank
    /\ newFeedUrl = <<>>
    /\ isLoading = FALSE
    /\ addFeedTask = Idle
    /\ convertedContent = {}
    /\ summary = <<>>
    /\ savingSummary = {}
    /\ written = [feedId |-> <<>>, items |-> <<>>, saved |-> <<>>]
    /\ events = 0
    /\ error = <<>>
    /\ summarizeTask = NotSummarizing
    /\ urls = <<>>
    /\ convertTask = NotConverting
    /\ FetcherIdle
    /\ localStorage = NoEntries
    /\ lastSaved = NoEntries
    /\ apiKey = getApiKey(localStorage)
    /\ notice = Quiet

\* The settings under any sequence of saves.
SettingsNext ==
    \/ \E key \in KeyInputs : saveApiKey(key)
    \/ \E model \in ModelInputs : savePreferredModel(model)
    \/ \E prompts \in PromptLists(MaxPrompts) : saveCustomPrompts(prompts)
    \/ \E promptId \in PromptIdInputs : saveSelectedPrompt(promptId)

SettingsSpec == SummarizerInit /\ [][SettingsNext]_vars

SummarizerNext ==
    \/ \E request \in Requests : summarizeText(request)
    \/ summarizeTextSettled
    \/ \E value \in KeyInputs : handleApiKeyChange(value)
    \/ handleSummarize
    \/ handleSummarizeSettled

SummarizerSpec == SummarizerInit /\ [][SummarizerNext]_vars

-----------------------------------------------------------------------------
(* searchArticles over stores of any content *)

\* The texts of at most n characters over 'f' and 'F'.
RECURSIVE Texts(_)
Texts(n) ==
    IF n = 0 THEN {<<>>}
    ELSE Texts(n - 1)
         \cup {Append(t, c) : t \in {u \in Texts(n - 1) : Len(u) = n - 1},
                              c \in {"f", "F"}}

SearchTexts == Texts(MaxLen)

\* An article that carries the text t in one field, or in none.
SearchArticle(field, t) ==
    LET base == [title |-> <<"o">>, publishDate |-> 1, content |-> <<"o">>,
                 url |-> <<"u">>, isRead |-> FALSE, tags |-> <<>>]
    IN CASE field = "title" -> [base EXCEPT !.title = t]
         [] field = "content" -> [base EXCEPT !.content = t]
         [] field = "summary" -> ("summary" :> t) @@ base
         [] field = "tags" -> [base EXCEPT !.tags = << <<"f">>, t >>]
         [] OTHER -> ("notes" :> t) @@ base

SearchArticles ==
    {SearchArticle(field, t) :
        field \in {"title", "content", "summary", "tags", "notes"},
        t \in SearchTexts}

SearchInit ==
    /\ db = "open"
    /\ opening = 0
    /\ idbVersion = version
    /\ objectStoreNames = StoreNames
    /\ feeds = {}
    /\ \E a \in SearchArticles :
          \E rest \in {{}} \cup {{WithId(SearchArticle(field, <<c>>),
                                           articleId(2))} :
                                      field \in {"title", "summary", "tags"},
                                      c \in {"f", "F"}} :
              articles = {WithId(a, articleId(1))} \cup rest
    /\ highlights = {}
    /\ result = Settled("none", "none", <<>>)
    /\ issued = {r.id : r \in articles}
    /\ ViewsInit
    /\ FetcherIdle
    /\ NoSettings

SearchNext == \E q \in SearchTexts : searchArticles(q)

SearchSpec == SearchInit /\ [][SearchNext]_vars

-----------------------------------------------------------------------------
(* Documents: the trees DOMParser.parseFromString returns *)

\* A text node and an element.  attributes maps the names of the attributes
\* the element carries to their values; the value of class is the sequence of
\* its class names.
Tx(data) == [nodeName |-> "#text", data |-> data]

El(nodeName, attributes, childNodes) ==
    [nodeName |-> nodeName, attributes |-> attributes,
     childNodes |-> childNodes]

\* A document, as parseFromString builds it from a text under a content
\* type; its child nodes are its root element, if it still has one.
Doc(contentType, childNodes) ==
    [nodeName |-> "#document", contentType |-> contentType,
     childNodes |-> childNodes]

NoAttributes == <<>>

isText(node) == node.nodeName = "#text"

RECURSIVE Flatten(_)
Flatten(ss) == IF Len(ss) = 0 THEN <<>> ELSE Head(ss) \o Flatten(Tail(ss))

\* A plausible slip: the text of the node's own text nodes only.
textContentShallow(node) ==
    IF isText(node)
    THEN node.data
    ELSE Flatten([i \in 1 .. Len(node.childNodes) |->
                     IF isText(node.childNodes[i])
                     THEN node.childNodes[i].data
                     ELSE <<>>])

\* Node.textContent: the text of the node's descendants, in document order
RECURSIVE textContent(_)
textContent(node) ==
    IF isText(node)
    THEN node.data
    ELSE Flatten([i \in 1 .. Len(node.childNodes) |->
                     textContent(node.childNodes[i])])

\* the elements below a node, in document order
RECURSIVE descendants(_)
descendants(node) ==
    IF isText(node)
    THEN <<>>
    ELSE Flatten([i \in 1 .. Len(node.childNodes) |->
                     IF isText(node.childNodes[i])
                     THEN <<>>
                     ELSE <<node.childNodes[i]>>
                          \o descendants(node.childNodes[i])])

\* The class selectors the services use, with the class each one names.
ClassSelectors ==
    (".advertisement" :> "advertisement") @@ (".sidebar" :> "sidebar") @@
    (".content" :> "content") @@ (".post" :> "post") @@ (".entry" :> "entry")

\* 'dc:creator' is the type selector dc followed by the pseudo-class
\* :creator, which no selector grammar knows: querySelector throws a
\* SyntaxError for it.
ValidSelector(selector) == selector # "dc:creator"

hasClass(element, name) ==
    /\ HasField(element.attributes, "class")
    /\ \E i \in 1 .. Len(element.attributes.class) :
          element.attributes.class[i] = name

\* Element.matches, for the selectors the services use
matches(element, selector) ==
    CASE selector = "item, entry" -> element.nodeName \in {"item", "entry"}
      [] selector = "meta[name=\"author\"]" ->
            /\ element.nodeName = "meta"
            /\ HasField(element.attributes, "name")
            /\ element.attributes.name = <<"author">>
      [] selector = "meta[name=\"description\"]" ->
            /\ element.nodeName = "meta"
            /\ HasField(element.attributes, "name")
            /\ element.attributes.name = <<"description">>
      [] selector \in DOMAIN ClassSelectors ->
            hasClass(element, ClassSelectors[selector])
      [] OTHER -> element.nodeName = selector

\* querySelectorAll of a valid selector: the matching elements below the
\* node, in document order
querySelectorAll(node, selector) ==
    SelectSeq(descendants(node), LAMBDA e : matches(e, selector))

\* querySelector of a valid selector: the first of them, or null
querySelector(node, selector) ==
    LET all == querySelectorAll(node, selector)
    IN  IF Len(all) = 0 THEN {} ELSE {all[1]}

isSpace(c) == c \in {" ", "\n"}

RECURSIVE trimStart(_)
trimStart(s) ==
    IF Len(s) > 0 /\ isSpace(Head(s)) THEN trimStart(Tail(s)) ELSE s

RECURSIVE trimEnd(_)
trimEnd(s) ==
    IF Len(s) > 0 /\ isSpace(s[Len(s)])
    THEN trimEnd(SubSeq(s, 1, Len(s) - 1))
    ELSE s

\* String.prototype.trim
trim(s) == trimEnd(trimStart(s))

-----------------------------------------------------------------------------
(* RSSParser (src/src/services/rssParser.ts) *)

\* the address fetched
Url == <<"u">>

Returned(value) == [err |-> "none", ret |-> value]

Thrown(thrown) == [err |-> thrown]

\* parent.querySelector(tagName)?.textContent?.trim() || ''
getTextContent(parent, tagName) ==
    LET element == querySelector(parent, tagName)
    IN  IF element = {} THEN <<>> ELSE trim(textContent(TheOne(element)))

\* parent.querySelector(tagName)?.getAttribute(attribute) || ''
getAttributeContent(parent, tagName, attribute) ==
    LET element == querySelector(parent, tagName)
    IN  IF element = {}
        THEN <<>>
        ELSE IF HasField(TheOne(element).attributes, attribute)
             THEN TheOne(element).attributes[attribute]
             ELSE <<>>

\* getTextContent(parent, a) || getTextContent(parent, b) || ... || '':
\* the calls are made left to right until one returns a non-empty text, and
\* a call with an invalid selector throws.
RECURSIVE firstText(_, _)
firstText(parent, tagNames) ==
    IF Len(tagNames) = 0
    THEN Returned(<<>>)
    ELSE IF ~ValidSelector(Head(tagNames))
         THEN Thrown("SyntaxError")
         ELSE LET text == getTextContent(parent, Head(tagNames))
              IN  IF text # <<>>
                  THEN Returned(text)
                  ELSE firstText(parent, Tail(tagNames))

\* the callback of the map over the items and entries
parseItem(item) ==
    LET title == getTextContent(item, "title")
        link == getTextContent(item, "link")
        href == getAttributeContent(item, "link", "href")
        description == firstText(item, <<"description", "summary", "content">>)
        pubDate == firstText(item, <<"pubDate", "published", "updated">>)
        author == firstText(item, <<"author", "dc:creator">>)
        guid == firstText(item, <<"guid", "id">>)
    IN  IF author.err # "none"
        THEN Thrown(author.err)
        ELSE Returned([title |-> IF title # <<>> THEN title
                                 ELSE <<"Untitled">>,
                       link |-> IF link # <<>> THEN link ELSE href,
                       description |-> description.ret,
                       pubDate |-> pubDate.ret,
                       author |-> author.ret,
                       guid |-> guid.ret])

parseRSSOut(doc) ==
    LET channel == IF querySelector(doc, "channel") # {}
                   THEN querySelector(doc, "channel")
                   ELSE querySelector(doc, "feed")
        elements == querySelectorAll(doc, "item, entry")
        items == [i \in 1 .. Len(elements) |-> parseItem(elements[i])]
        title == getTextContent(TheOne(channel), "title")
        description == firstText(TheOne(channel), <<"description", "subtitle">>)
    IN  IF channel = {}
        THEN Thrown("MalformedFeed")
        ELSE IF \E i \in 1 .. Len(items) : items[i].err # "none"
             THEN Thrown("SyntaxError")
             ELSE Returned(
                    [title |-> IF title # <<>> THEN title
                               ELSE <<"Unknown Feed">>,
                     description |-> description.ret,
                     link |-> getTextContent(TheOne(channel), "link"),
                     items |-> [i \in 1 .. Len(items) |-> items[i].ret]])

\* The items of the demonstration feed: the texts are fixed and the dates are
\* read from the clock.
DemoItems ==
    << [title |-> <<"Getting Started with RSS Readers">>,
        link |-> <<"https://example.com/article1">>,
        description |-> <<"Learn how to effectively use RSS readers">>,
        pubDate |-> <<"now">>,
        author |-> <<"Tech Writer">>,
        guid |-> <<"article-1">>],
       [title |-> <<"The Future of Content Aggregation">>,
        link |-> <<"https://example.com/article2">>,
        description |-> <<"Exploring how content aggregation is evolving">>,
        pubDate |-> <<"now - 86400000">>,
        author |-> <<"Content Strategist">>,
        guid |-> <<"article-2">>],
       [title |-> <<"Building Your Personal Knowledge Base">>,
        link |-> <<"https://example.com/article3">>,
        description |-> <<"Tips and strategies">>,
        pubDate |-> <<"now - 172800000">>,
        author |-> <<"Productivity Expert">>,
        guid |-> <<"article-3">>] >>

getDemoFeed(url) ==
    [title |-> <<"Demo RSS Feed">>,
     description |-> <<"A demonstration RSS feed with sample articles">>,
     link |-> url,
     items |-> DemoItems]

\* fetchAndParse(url), given what fetch(url) settles with: the status of the
\* response is not looked at, and whatever the try block throws is caught.
fetchAndParseOut(url) ==
    IF response.kind = "throws"
    THEN Returned(getDemoFeed(url))
    ELSE LET parsed == parseRSSOut(response.body)
         IN  IF parsed.err = "none"
             THEN parsed
             ELSE Returned(getDemoFeed(url))

-----------------------------------------------------------------------------
(* Feed documents and the calls of the parser *)

\* the text of the index-th element named nodeName, with the white space an
\* indented document has around it
Text(nodeName, index) == <<"\n", " ", nodeName, ToString(index), " ">>

Leaf(nodeName, index) ==
    El(nodeName, NoAttributes, <<Tx(Text(nodeName, index))>>)

Leaves(nodeNames, index) ==
    [i \in 1 .. Len(nodeNames) |-> Leaf(nodeNames[i], index)]

\* The items and entries of the documents: an RSS 2.0 item, an Atom entry
\* whose link is an href attribute, an item without author, an item with a
\* dc:creator, an item whose description is empty and an empty item.
ItemShapes == {"rss", "atom", "anonymous", "creator", "blank", "empty"}

ItemElement(shape, index) ==
    CASE shape = "rss" ->
           El("item", NoAttributes,
              Leaves(<<"title", "link", "description", "pubDate", "author",
                       "guid">>, index))
      [] shape = "atom" ->
           El("entry", NoAttributes,
              <<Leaf("title", index),
                El("link", "href" :> <<"href", ToString(index)>>, <<>>)>>
              \o Leaves(<<"summary", "content", "published", "updated",
                          "author", "id">>, index))
      [] shape = "anonymous" ->
           El("item", NoAttributes,
              Leaves(<<"title", "link", "description">>, index))
      [] shape = "creator" ->
           El("item", NoAttributes,
              Leaves(<<"title", "dc:creator">>, index))
      [] shape = "blank" ->
           El("item", NoAttributes,
              <<El("description", NoAttributes, <<Tx(<<" ">>)>>)>>
              \o Leaves(<<"summary", "author">>, index))
      [] shape = "empty" -> El("item", NoAttributes, <<>>)

\* the elements the container of a feed has of its own, before its items
OwnShapes ==
    { <<>>, <<"title">>, <<"title", "description", "link">>,
      <<"subtitle">> }

RECURSIVE ShapeSeqs(_)
ShapeSeqs(n) ==
    IF n = 0
    THEN { <<>> }
    ELSE ShapeSeqs(n - 1) \cup
         { Append(s, shape) : s \in { t \in ShapeSeqs(n - 1) :
                                        Len(t) = n - 1 },
                              shape \in ItemShapes }

ItemElements(shapes) ==
    [i \in 1 .. Len(shapes) |-> ItemElement(shapes[i], i)]

\* An RSS document, an Atom document, and a document with neither channel
\* nor feed.
FeedDocument(container, own, shapes) ==
    CASE container = "channel" ->
           Doc("text/xml",
               <<El("rss", NoAttributes,
                    <<El("channel", NoAttributes,
                         Leaves(own, 0) \o ItemElements(shapes))>>)>>)
      [] container = "feed" ->
           Doc("text/xml",
               <<El("feed", NoAttributes,
                    Leaves(own, 0) \o ItemElements(shapes))>>)
      [] container = "neither" ->
           Doc("text/xml",
               <<El("html", NoAttributes,
                    Leaves(own, 0) \o ItemElements(shapes))>>)

FeedDocuments ==
    { FeedDocument(container, own, shapes) :
        container \in {"channel", "feed", "neither"},
        own \in OwnShapes,
        shapes \in ShapeSeqs(MaxEntries) }

-----------------------------------------------------------------------------
(* URLToMarkdownConverter (src/src/services/urlToMarkdown.ts) *)

\* Markdown is a sequence of tokens: the characters of the markup, and the
\* texts of the document as they stand.

elementsToRemove ==
    <<"script", "style", "nav", "header", "footer", ".advertisement",
      ".sidebar">>

contentSelectors == <<"article", "main", ".content", ".post", ".entry">>

\* doc.querySelectorAll(selector).forEach(el => el.remove()): the tree
\* without the elements the selector matches
RECURSIVE remove(_, _)
remove(node, selector) ==
    IF isText(node)
    THEN node
    ELSE LET kept == SelectSeq(node.childNodes,
                               LAMBDA c : isText(c) \/ ~matches(c, selector))
         IN  [node EXCEPT
                !.childNodes = [i \in 1 .. Len(kept) |->
                                   remove(kept[i], selector)]]

\* elementsToRemove.forEach(...)
RECURSIVE removeEach(_, _)
removeEach(doc, selectors) ==
    IF Len(selectors) = 0
    THEN doc
    ELSE removeEach(remove(doc, Head(selectors)), Tail(selectors))

\* A plausible slip: the first element, in document order, that any of the
\* selectors matches.
firstMatchOfAny(doc, selectors) ==
    LET all == SelectSeq(descendants(doc),
                         LAMBDA e : \E i \in 1 .. Len(selectors) :
                                       matches(e, selectors[i]))
    IN  IF Len(all) = 0 THEN {} ELSE {all[1]}

\* the loop over contentSelectors: the first match of the first selector
\* that matches, or null
RECURSIVE firstMatch(_, _)
firstMatch(doc, selectors) ==
    IF Len(selectors) = 0
    THEN {}
    ELSE IF querySelector(doc, Head(selectors)) # {}
         THEN querySelector(doc, Head(selectors))
         ELSE firstMatch(doc, Tail(selectors))

\* the element children of a node named nodeName
children(node, nodeName) ==
    SelectSeq(node.childNodes, LAMBDA c : c.nodeName = nodeName)

\* Document.body: the body child of the html element, or null
body(doc) ==
    IF Len(children(doc, "html")) = 0
    THEN {}
    ELSE IF Len(children(children(doc, "html")[1], "body")) = 0
         THEN {}
         ELSE {children(children(doc, "html")[1], "body")[1]}

\* el.getAttribute(name) || ''
getAttribute(el, name) ==
    IF HasField(el.attributes, name) THEN el.attributes[name] ELSE <<>>

\* the grave accent, a character a string of this module cannot hold
Backtick == "GRAVE ACCENT"

\* A plausible slip: every heading is written with one '#'.
HeadingsFlat ==
    ("h1" :> 1) @@ ("h2" :> 1) @@ ("h3" :> 1) @@ ("h4" :> 1) @@
    ("h5" :> 1) @@ ("h6" :> 1)

Headings ==
    ("h1" :> 1) @@ ("h2" :> 2) @@ ("h3" :> 3) @@ ("h4" :> 4) @@
    ("h5" :> 5) @@ ("h6" :> 6)

processListItems(listElement, marker) ==
    LET items == querySelectorAll(listElement, "li")
    IN  Flatten([index \in 1 .. Len(items) |->
                    (IF marker = <<"1", ".">>
                     THEN <<ToString(index), ".">>
                     ELSE marker)
                    \o <<" ">> \o textContent(items[index]) \o <<"\n">>])

RECURSIVE htmlToMarkdown(_)
htmlToMarkdown(element) ==
    Flatten([n \in 1 .. Len(element.childNodes) |->
        LET el == element.childNodes[n]
            tagName == el.nodeName
        IN  IF isText(el)
            THEN el.data
            ELSE CASE tagName \in DOMAIN Headings ->
                        [i \in 1 .. Headings[tagName] |-> "#"] \o <<" ">>
                        \o textContent(el) \o <<"\n", "\n">>
                   [] tagName = "p" -> textContent(el) \o <<"\n", "\n">>
                   [] tagName \in {"strong", "b"} ->
                        <<"*", "*">> \o textContent(el) \o <<"*", "*">>
                   [] tagName \in {"em", "i"} ->
                        <<"*">> \o textContent(el) \o <<"*">>
                   [] tagName = "a" ->
                        <<"[">> \o textContent(el) \o <<"]", "(">>
                        \o getAttribute(el, "href") \o <<")">>
                   [] tagName = "img" ->
                        <<"!", "[">> \o getAttribute(el, "alt")
                        \o <<"]", "(">> \o getAttribute(el, "src")
                        \o <<")", "\n", "\n">>
                   [] tagName = "ul" ->
                        processListItems(el, <<"-">>) \o <<"\n">>
                   [] tagName = "ol" ->
                        processListItems(el, <<"1", ".">>) \o <<"\n">>
                   [] tagName = "blockquote" ->
                        <<">", " ">> \o textContent(el) \o <<"\n", "\n">>
                   [] tagName = "code" ->
                        <<Backtick>> \o textContent(el) \o <<Backtick>>
                   [] tagName = "pre" ->
                        <<Backtick, Backtick, Backtick, "\n">>
                        \o textContent(el)
                        \o <<"\n", Backtick, Backtick, Backtick, "\n", "\n">>
                   [] OTHER -> htmlToMarkdown(el)])

\* A plausible slip: the content root is selected before the elements are
\* removed, so that an element inside a removed one can be chosen.
convertHTMLToMarkdownSelectingFirst(doc, originalUrl) ==
    LET selected == firstMatch(doc, contentSelectors)
        mainContent == IF selected # {}
                       THEN {removeEach(TheOne(selected), elementsToRemove)}
                       ELSE body(removeEach(doc, elementsToRemove))
    IN  IF mainContent = {}
        THEN Thrown("TypeError")
        ELSE Returned(
               [markdown |-> htmlToMarkdown(TheOne(mainContent)),
                title |-> <<"Untitled Article">>,
                metadata |-> [url |-> originalUrl]])

\* convertHTMLToMarkdown(html, originalUrl), of the document the text is
\* parsed into.  When the body itself has been removed and no selector
\* matches, htmlToMarkdown reads childNodes of null.
convertHTMLToMarkdownOut(doc, originalUrl) ==
    LET titleElement == querySelector(doc, "title")
        title == IF titleElement # {} /\ textContent(TheOne(titleElement)) # <<>>
                 THEN textContent(TheOne(titleElement))
                 ELSE <<"Untitled Article">>
        author == querySelector(doc, "meta[name=\"author\"]")
        description == querySelector(doc, "meta[name=\"description\"]")
        stripped == removeEach(doc, elementsToRemove)
        selected == firstMatch(stripped, contentSelectors)
        mainContent == IF selected # {} THEN selected ELSE body(stripped)
    IN  IF mainContent = {}
        THEN Thrown("TypeError")
        ELSE Returned(
               [markdown |-> htmlToMarkdown(TheOne(mainContent)),
                title |-> title,
                metadata |->
                   [title |-> title,
                    author |-> IF author = {} THEN <<>>
                               ELSE getAttribute(TheOne(author), "content"),
                    description |->
                       IF description = {} THEN <<>>
                       ELSE getAttribute(TheOne(description), "content"),
                    url |-> originalUrl,
                    extractedAt |-> <<"now">>]])

getDemoMarkdown(url) ==
    [markdown |-> <<"# Sample Article from URL", "[original URL](">> \o url
                  \o <<")", "*Article extracted on ", "now", "*">>,
     title |-> <<"Sample Converted Article">>,
     metadata |-> [title |-> <<"Sample Converted Article">>,
                   author |-> <<"Demo Author">>,
                   description |->
                      <<"A demonstration of URL-to-Markdown conversion">>,
                   url |-> url,
                   extractedAt |-> <<"now">>]]

\* convertURL(url), given what fetch(url) settles with: the status of the
\* response is not looked at, and whatever the try block throws is caught.
convertURLOut(url) ==
    IF response.kind = "throws"
    THEN Returned(getDemoMarkdown(url))
    ELSE LET converted == convertHTMLToMarkdownOut(response.body, url)
         IN  IF converted.err = "none"
             THEN converted
             ELSE Returned(getDemoMarkdown(url))

-----------------------------------------------------------------------------
(* Pages *)

\* the text of the j-th element of the k-th block of a page: a token no
\* other element of the page has and no markup is made of
Word(k, j) == <<ToString(10 * k + j)>>

Par(k, j) == El("p", NoAttributes, <<Tx(Word(k, j))>>)

Li(k, j) == El("li", NoAttributes, <<Tx(Word(k, j))>>)

Div(class, childNodes) == El("div", "class" :> <<class>>, childNodes)

\* The blocks of a page's body: paragraphs and lists, the content roots the
\* converter looks for, and the elements it strips, alone, inside a content
\* root and around one.
Blocks ==
    {"p", "ol", "ul", "nested", "article", "main", "content", "post",
     "entry", "deep", "script", "style", "nav", "header", "footer",
     "advertisement", "sidebar", "navArticle", "articleScript"}

Block(block, k) ==
    CASE block = "p" -> Par(k, 1)
      [] block = "ol" -> El("ol", NoAttributes, <<Li(k, 1), Li(k, 2)>>)
      [] block = "ul" -> El("ul", NoAttributes, <<Li(k, 1), Li(k, 2)>>)
      [] block = "nested" ->
           El("ul", NoAttributes,
              <<El("li", NoAttributes,
                   <<Tx(Word(k, 1)),
                     El("ul", NoAttributes, <<Li(k, 2)>>)>>)>>)
      [] block = "article" -> El("article", NoAttributes, <<Par(k, 1)>>)
      [] block = "main" -> El("main", NoAttributes, <<Par(k, 1)>>)
      [] block = "content" -> Div("content", <<Par(k, 1)>>)
      [] block = "post" -> Div("post", <<Par(k, 1)>>)
      [] block = "entry" -> Div("entry", <<Par(k, 1)>>)
      [] block = "deep" ->
           Div("wrapper",
               <<Par(k, 1), El("article", NoAttributes, <<Par(k, 2)>>)>>)
      [] block = "script" -> El("script", NoAttributes, <<Tx(Word(k, 1))>>)
      [] block = "style" -> El("style", NoAttributes, <<Tx(Word(k, 1))>>)
      [] block = "nav" -> El("nav", NoAttributes, <<Par(k, 1)>>)
      [] block = "header" -> El("header", NoAttributes, <<Par(k, 1)>>)
      [] block = "footer" -> El("footer", NoAttributes, <<Par(k, 1)>>)
      [] block = "advertisement" -> Div("advertisement", <<Par(k, 1)>>)
      [] block = "sidebar" ->
           El("aside", "class" :> <<"widget", "sidebar">>, <<Par(k, 1)>>)
      [] block = "navArticle" ->
           El("nav", NoAttributes,
              <<El("article", NoAttributes, <<Par(k, 1)>>)>>)
      [] block = "articleScript" ->
           El("article", NoAttributes,
              <<Par(k, 1),
                Div("inner", <<El("script", NoAttributes,
                                  <<Tx(Word(k, 2))>>),
                               Par(k, 3)>>)>>)

\* The blocks of a page of running text: headings, text nodes, elements the
\* rule table of the converter does not name, and inline constructs with
\* elements nested in them.
Markup ==
    {"h1", "h2", "h3", "h4", "h5", "h6", "text", "section", "span",
     "strongEm", "iB", "aStrong", "img", "liStrong", "pLink", "divStrong"}

Strong(k, j) == El("strong", NoAttributes, <<Tx(Word(k, j))>>)

MarkupBlock(block, k) ==
    CASE block \in {"h1", "h2", "h3", "h4", "h5", "h6"} ->
           El(block, NoAttributes, <<Tx(Word(k, 1))>>)
      [] block = "text" -> Tx(Word(k, 1))
      [] block = "section" ->
           El("section", NoAttributes,
              <<El("h2", NoAttributes, <<Tx(Word(k, 1))>>), Par(k, 2)>>)
      [] block = "span" -> El("span", NoAttributes, <<Tx(Word(k, 1))>>)
      [] block = "strongEm" ->
           El("strong", NoAttributes,
              <<Tx(Word(k, 1)),
                El("em", NoAttributes, <<Tx(Word(k, 2))>>)>>)
      [] block = "iB" ->
           El("i", NoAttributes,
              <<El("b", NoAttributes, <<Tx(Word(k, 1))>>)>>)
      [] block = "aStrong" ->
           El("a", "href" :> Word(k, 9), <<Strong(k, 1)>>)
      [] block = "img" ->
           El("img", ("alt" :> Word(k, 1)) @@ ("src" :> Word(k, 9)), <<>>)
      [] block = "liStrong" ->
           El("ul", NoAttributes,
              <<El("li", NoAttributes, <<Strong(k, 1), Tx(Word(k, 2))>>)>>)
      [] block = "pLink" ->
           El("p", NoAttributes,
              <<Tx(Word(k, 1)),
                El("a", "href" :> Word(k, 9), <<Tx(Word(k, 2))>>)>>)
      [] block = "divStrong" ->
           Div("wrapper", <<Tx(Word(k, 1)), Strong(k, 2)>>)

RECURSIVE MarkupSeqs(_)
MarkupSeqs(n) ==
    IF n = 0
    THEN { <<>> }
    ELSE MarkupSeqs(n - 1) \cup
         { Append(s, block) : s \in { t \in MarkupSeqs(n - 1) :
                                        Len(t) = n - 1 },
                              block \in Markup }

RECURSIVE BlockSeqs(_)
BlockSeqs(n) ==
    IF n = 0
    THEN { <<>> }
    ELSE BlockSeqs(n - 1) \cup
         { Append(s, block) : s \in { t \in BlockSeqs(n - 1) :
                                        Len(t) = n - 1 },
                              block \in Blocks }

\* the class attributes of the body of a page
BodyAttributes == {NoAttributes, "class" :> <<"home", "sidebar">>}

\* A page as the HTML parser builds it: html, head with the title, body.
Page(attributes, blocks) ==
    Doc("text/html",
        <<El("html", NoAttributes,
             <<El("head", NoAttributes,
                  <<El("title", NoAttributes, <<Tx(<<"T">>)>>),
                    El("meta", ("name" :> <<"author">>)
                               @@ ("content" :> <<"W">>), <<>>)>>),
               El("body", attributes,
                  [k \in 1 .. Len(blocks) |->
                      IF blocks[k] \in Markup
                      THEN MarkupBlock(blocks[k], k)
                      ELSE Block(blocks[k], k)])>>)>>)

Pages ==
    { Page(attributes, blocks) :
        attributes \in BodyAttributes, blocks \in BlockSeqs(MaxBlocks) }

\* the pages of running text
TextPages ==
    { Page(NoAttributes, blocks) : blocks \in MarkupSeqs(MaxBlocks) }

-----------------------------------------------------------------------------
(* The parser and the converter under any response *)

\* What fetch(url) settles with: it throws, or it returns a response of a
\* 2xx status (ok) or of another status, whose body is any document.
Responses(documents) ==
    [kind : {"response"}, ok : BOOLEAN, body : documents]

FetchInit ==
    /\ db = "null"
    /\ opening = 0
    /\ idbVersion = 0
    /\ objectStoreNames = {}
    /\ feeds = {}
    /\ articles = {}
    /\ highlights = {}
    /\ result = Settled("none", "none", <<>>)
    /\ issued = {}
    /\ ViewsInit
    /\ \/ response = [kind |-> "throws"]
       \/ response \in Responses(FeedDocuments)
       \/ response \in Responses(Pages)
       \/ response \in Responses(TextPages)
    /\ outcome = [op |-> "none"]
    /\ NoSettings

\* parseRSS(xmlText), of the text of a response
parseRSS ==
    /\ response.kind = "response"
    /\ response.body.contentType = "text/xml"
    /\ outcome' = ("op" :> "parseRSS") @@ parseRSSOut(response.body)
    /\ UNCHANGED <<storeVars, result, issued, appVars, events, response,
                   browserVars>>

\* fetchAndParse(url)
fetchAndParse ==
    /\ response.kind = "response" => response.body.contentType = "text/xml"
    /\ outcome' = ("op" :> "fetchAndParse") @@ fetchAndParseOut(Url)
    /\ UNCHANGED <<storeVars, result, issued, appVars, events, response,
                   browserVars>>

\* convertHTMLToMarkdown(html, originalUrl), of the text of a response
convertHTMLToMarkdown ==
    /\ response.kind = "response"
    /\ response.body.contentType = "text/html"
    /\ outcome' = ("op" :> "convertHTMLToMarkdown")
                  @@ convertHTMLToMarkdownOut(response.body, Url)
    /\ UNCHANGED <<storeVars, result, issued, appVars, events, response,
                   browserVars>>

\* convertURL(url)
convertURL ==
    /\ response.kind = "response" => response.body.contentType = "text/html"
    /\ outcome' = ("op" :> "convertURL") @@ convertURLOut(Url)
    /\ UNCHANGED <<storeVars, result, issued, appVars, events, response,
                   browserVars>>

FetchNext ==
    \/ parseRSS
    \/ fetchAndParse
    \/ convertHTMLToMarkdown
    \/ convertURL

FetchSpec == FetchInit /\ [][FetchNext]_vars

-----------------------------------------------------------------------------
(* The store's contract *)

Ids(table) == {r.id : r \in table}

Others(table, id) == {r \in table : r.id # id}

\* C1: a store operation other than init that is called while the store is
\* uninitialized fails with NotInitialized and leaves the persisted feeds and
\* articles as they were; called on a ready store it does not fail with
\* NotInitialized.
C1_NotInitialized ==
    [][StoreCall =>
          /\ db = "null" => /\ result'.err = "NotInitialized"
                            /\ feeds' = feeds
                            /\ articles' = articles
          /\ db = "open" => result'.err # "NotInitialized"]_vars

C1_Witness ==
    /\ db = "null"
    /\ opening = 1
    /\ result.op = "saveArticle"
    /\ result.err = "NotInitialized"
    /\ articles = {OldArticle}

\* C2: on a ready store, after saveArticle(a) has returned an identifier,
\* getArticles returns exactly one record with that identifier, that record
\* has a's fields apart from id, and every record stored before is still there.
C2_SaveRoundTrip ==
    [][\A a \in ArticleInputs :
          (saveArticle(a) /\ db = "open" /\ result'.err = "none") =>
              LET got == getArticlesOut' IN
              /\ got.err = "none"
              /\ Cardinality({r \in got.ret : r.id = result'.ret}) = 1
              /\ \A r \in got.ret :
                    r.id = result'.ret =>
                       /\ DOMAIN r = DOMAIN a \cup {"id"}
                       /\ \A f \in DOMAIN a \ {"id"} : r[f] = a[f]
              /\ articles \subseteq got.ret]_vars

C2_Witness ==
    /\ result.op = "saveArticle"
    /\ result.err = "none"
    /\ Cardinality(articles) >= 2
    /\ \E r \in articles :
          r.id = result.ret /\ HasField(r, "notes") /\ r.notes = <<"n">>

\* C3: no two records of a table share an identifier, and an identifier
\* saveArticle (saveFeed) returns differs from every identifier an earlier
\* saveArticle (saveFeed) returned, deleted records included.  No operation
\* removes a feed, so the identifiers saveFeed has returned are those stored.
C3_IdentifiersUnique ==
    /\ [](/\ \A r1, r2 \in articles : r1.id = r2.id => r1 = r2
          /\ \A f1, f2 \in feeds : f1.id = f2.id => f1 = f2)
    /\ [][/\ ((\E a \in ArticleInputs : saveArticle(a))
                /\ result'.err = "none") => result'.ret \notin issued
          /\ ((\E f \in FeedInputs : saveFeed(f))
                /\ result'.err = "none") => result'.ret \notin Ids(feeds)]_vars

\* C4: init leaves every persisted record as it was, also on a store that
\* holds feeds and articles, and a ready store stays ready.
C4_InitIdempotent ==
    [][/\ db = "open" => db' = "open"
       /\ (InitCall \/ InitSuccess \/ InitError) =>
             /\ feeds' = feeds
             /\ articles' = articles
             /\ highlights' = highlights
             /\ objectStoreNames \subseteq objectStoreNames']_vars

\* A second init has succeeded on a store holding a record of this session.
C4_Witness ==
    /\ result.op = "init"
    /\ result.err = "none"
    /\ db = "open"
    /\ feeds # {}
    /\ \E r \in articles : r.id \in {articleId(st) : st \in Stamps}

\* C5: on a ready store updateArticle(a) succeeds whether or not a.id is
\* stored; afterwards the record under a.id is a itself and every record
\* with another identifier is as it was.
C5_UpdateOverwrites ==
    [][\A a \in UpdateInputs :
          (updateArticle(a) /\ db = "open") =>
              /\ result'.err = "none"
              /\ {r \in articles' : r.id = a.id} = {a}
              /\ Others(articles', a.id) = Others(articles, a.id)]_vars

\* An update has replaced a record saveArticle stored, and an update has
\* inserted a record under an identifier that was not stored.
C5_Witness ==
    /\ result.op = "updateArticle"
    /\ result.err = "none"
    /\ \E r \in articles : r.id = ForeignId
    /\ \E r \in articles : r.id \in issued /\ r.isRead

\* C6: on a ready store deleteArticle(id) succeeds; afterwards getArticles
\* returns no article with that id, every other article is as it was, and
\* the feeds and highlights tables are as they were; when id was not stored
\* nothing changes.
C6_DeleteFrame ==
    [][\A id \in DeleteInputs :
          (deleteArticle(id) /\ db = "open") =>
              /\ result'.err = "none"
              /\ \A r \in getArticlesOut'.ret : r.id # id
              /\ Others(articles', id) = Others(articles, id)
              /\ feeds' = feeds
              /\ highlights' = highlights
              /\ id \notin Ids(articles) => articles' = articles]_vars

\* An article of a stored feed has been deleted while another article stays.
C6_Witness ==
    /\ result.op = "deleteArticle"
    /\ result.err = "none"
    /\ feeds = {OldFeed}
    /\ OldArticle.id \notin Ids(articles)
    /\ articles # {}

\* C7: for every query and every content of the store, searchArticles
\* returns exactly the stored articles of which the title, the content, the
\* summary when there is one, or some tag holds a run of characters that
\* equals the query once both are lower-cased, and it leaves the store as it
\* was.
C7_SearchMatchesSubstring ==
    [][\A q \in SearchTexts :
          searchArticles(q) =>
              LET Holds(text) ==
                      \E from \in 1 .. Len(text) + 1 :
                          /\ from + Len(q) - 1 <= Len(text)
                          /\ toLowerCase(SubSeq(text, from, from + Len(q) - 1))
                                = toLowerCase(q)
                  Found(r) ==
                      \/ Holds(r.title)
                      \/ Holds(r.content)
                      \/ "summary" \in DOMAIN r /\ Holds(r.summary)
                      \/ \E i \in DOMAIN r.tags : Holds(r.tags[i])
              IN /\ result'.err = "none"
                 /\ result'.ret = {r \in articles : Found(r)}
                 /\ storeVars' = storeVars]_vars

\* A search has returned one of two stored articles: the one whose second
\* tag holds the query in another case.
C7_Witness ==
    /\ result.op = "searchArticles"
    /\ Cardinality(articles) = 2
    /\ Cardinality(result.ret) = 1
    /\ \E r \in result.ret : r.tags = << <<"f">>, <<"F", "F">> >>

-----------------------------------------------------------------------------
(* The invariants of the data model, over the sessions of the application *)

NoDuplicates(list) ==
    \A i, j \in 1 .. Len(list) : list[i] = list[j] => i = j

\* C8: in every reachable state no tag occurs twice in the tags of a stored
\* article or in the tag list of the Notes Editor, whatever the user adds,
\* removes, loads into the editor and saves from the feed importer, the URL
\* fetcher, the AI summarizer and the editor.
C8_TagsHaveNoDuplicates ==
    /\ \A r \in articles : NoDuplicates(r.tags)
    /\ NoDuplicates(editor.tags)

\* The editor has stored an article it was given with the tag 'url-fetched'
\* and to which the user added a tag.
C8_Witness ==
    /\ activeTab = "knowledge"
    /\ \E r \in articles :
          /\ r.tags = <<UrlFetched, <<"t">> >>
          /\ HasField(r, "highlights")
          /\ r.id \in issued

\* C9: in every reachable state the articleId of every highlight of a stored
\* article is the identifier of a stored article, also for the articles the
\* Notes Editor saves to the knowledge store.
C9_HighlightsReferenceArticles ==
    \A r \in articles :
        HasField(r, "highlights") =>
            \A i \in 1 .. Len(r.highlights) :
                r.highlights[i].articleId \in Ids(articles)

C11_EditorSaveMutatesRecord ==
    [][(/\ saveToKnowledge
        /\ db = "open"
        /\ currentArticle # {}
        /\ \E r \in articles : r.id = TheOne(currentArticle).id) =>
           /\ Cardinality(articles') = Cardinality(articles)
           /\ \E r \in articles' :
                 /\ r.id = TheOne(currentArticle).id
                 /\ r.title = editor.title
                 /\ r.content = editor.content
                 /\ HasField(r, "notes") /\ r.notes = editor.notes
                 /\ r.tags = editor.tags
                 /\ HasField(r, "highlights")
                 /\ Len(r.highlights) = Len(editor.highlights)]_vars

-----------------------------------------------------------------------------
(* The parser's contract *)

\* the document has an element of this name
Contains(doc, nodeName) ==
    LET elements == descendants(doc)
    IN  \E i \in 1 .. Len(elements) : elements[i].nodeName = nodeName

\* C12: parseRSS of a document with neither a channel nor a feed element
\* fails with MalformedFeed and returns no feed; parseRSS of a document with
\* one of them does not fail.
C12_MalformedFeedOnly ==
    outcome.op = "parseRSS" =>
       IF Contains(response.body, "channel") \/ Contains(response.body, "feed")
       THEN outcome.err = "none"
       ELSE outcome.err = "MalformedFeed" /\ ~HasField(outcome, "ret")

\* C13: when fetchAndParse has fetched a document with neither a channel nor
\* a feed element, its outcome is not the one of a failed fetch: it does not
\* return the demonstration feed.
C13_MalformedFeedSurfaced ==
    (/\ outcome.op = "fetchAndParse"
     /\ response.kind = "response"
     /\ response.ok
     /\ ~Contains(response.body, "channel")
     /\ ~Contains(response.body, "feed")) =>
        ~(outcome.err = "none" /\ outcome.ret = getDemoFeed(Url))

\* C14: when the fetch is a transport failure (it throws, or the response
\* has a status that is not 2xx), fetchAndParse returns the demonstration
\* feed and convertURL returns the demonstration markdown, neither rejects,
\* and nothing of the body of the response is in the result.
C14_TransportFailurePlaceholder ==
    (response.kind = "throws" \/ ~response.ok) =>
       /\ outcome.op = "fetchAndParse" =>
             outcome.err = "none" /\ outcome.ret = getDemoFeed(Url)
       /\ outcome.op = "convertURL" =>
             outcome.err = "none" /\ outcome.ret = getDemoMarkdown(Url)

\* the first child element of this name an element has of its own
OwnChild(element, nodeName) ==
    IF Len(children(element, nodeName)) = 0
    THEN {}
    ELSE {children(element, nodeName)[1]}

\* the trimmed text of that child, and the empty text when there is none
OwnText(element, nodeName) ==
    IF OwnChild(element, nodeName) = {}
    THEN <<>>
    ELSE trim(textContent(TheOne(OwnChild(element, nodeName))))

\* C15: parseRSS of an RSS document with a channel and N item elements
\* returns exactly N items, in document order: the i-th item returned has
\* the title and the link of the i-th item element.
C15_OneItemPerElement ==
    (/\ outcome.op = "parseRSS"
     /\ Contains(response.body, "channel")
     /\ ~Contains(response.body, "entry")) =>
        LET elements == SelectSeq(descendants(response.body),
                                  LAMBDA e : e.nodeName = "item")
        IN  /\ outcome.err = "none"
            /\ Len(outcome.ret.items) = Len(elements)
            /\ \A i \in 1 .. Len(elements) :
                  /\ outcome.ret.items[i].title =
                        OrElse(OwnText(elements[i], "title"), <<"Untitled">>)
                  /\ outcome.ret.items[i].link = OwnText(elements[i], "link")

\* the trimmed text of the first of these aliases the element has a child
\* of, and the empty text when it has none of them
RECURSIVE FirstAlias(_, _)
FirstAlias(element, aliases) ==
    IF Len(aliases) = 0
    THEN <<>>
    ELSE IF OwnChild(element, Head(aliases)) # {}
         THEN OwnText(element, Head(aliases))
         ELSE FirstAlias(element, Tail(aliases))

\* C16: every field of every item and entry parseRSS returns is the trimmed
\* text of the first alias of the field the element has, in the order
\* description, summary, content; pubDate, published, updated; author,
\* dc:creator; guid, id; the text of link, then its href attribute; and is
\* empty when the element has none of them ("Untitled" for the title).
C16_FirstAliasWins ==
    (/\ outcome.op = "parseRSS"
     /\ Contains(response.body, "channel") \/ Contains(response.body, "feed"))
    =>
        LET elements == SelectSeq(descendants(response.body),
                                  LAMBDA e : e.nodeName \in {"item", "entry"})
        IN  /\ outcome.err = "none"
            /\ Len(outcome.ret.items) = Len(elements)
            /\ \A i \in 1 .. Len(elements) :
                 LET item == outcome.ret.items[i]
                     element == elements[i]
                 IN  /\ item.title =
                           OrElse(OwnText(element, "title"), <<"Untitled">>)
                     /\ item.link =
                           OrElse(OwnText(element, "link"),
                                  IF OwnChild(element, "link") = {}
                                  THEN <<>>
                                  ELSE getAttribute(
                                          TheOne(OwnChild(element, "link")),
                                          "href"))
                     /\ item.description =
                           FirstAlias(element,
                                      <<"description", "summary", "content">>)
                     /\ item.pubDate =
                           FirstAlias(element,
                                      <<"pubDate", "published", "updated">>)
                     /\ item.author =
                           FirstAlias(element, <<"author", "dc:creator">>)
                     /\ item.guid = FirstAlias(element, <<"guid", "id">>)

\* the channel of the document, or its feed element when it has no channel
Container(doc) ==
    LET named(nodeName) == SelectSeq(descendants(doc),
                                     LAMBDA e : e.nodeName = nodeName)
    IN  IF Len(named("channel")) > 0
        THEN named("channel")[1]
        ELSE named("feed")[1]

\* C17: when the channel or feed element of a document has no title of its
\* own, parseRSS returns the title "Unknown Feed"; when it has no
\* description and no subtitle of its own, an empty description; when it has
\* no link of its own, an empty link; whatever its items and entries carry.
C17_FeedLevelDefaults ==
    (/\ outcome.op = "parseRSS"
     /\ Contains(response.body, "channel") \/ Contains(response.body, "feed"))
    =>
        LET channel == Container(response.body)
        IN  /\ OwnChild(channel, "title") = {} =>
                  /\ outcome.err = "none"
                  /\ outcome.ret.title = <<"Unknown Feed">>
            /\ (/\ OwnChild(channel, "description") = {}
                /\ OwnChild(channel, "subtitle") = {}) =>
                  /\ outcome.err = "none"
                  /\ outcome.ret.description = <<>>
            /\ OwnChild(channel, "link") = {} =>
                  /\ outcome.err = "none"
                  /\ outcome.ret.link = <<>>

-----------------------------------------------------------------------------
(* The converter's contract *)

\* the text an element has of its own: that of its child text nodes
OwnData(element) ==
    Flatten([i \in 1 .. Len(element.childNodes) |->
                IF isText(element.childNodes[i])
                THEN element.childNodes[i].data
                ELSE <<>>])

\* one line per li of the list, in document order: "i. text" counted from 1
\* for ol, "- text" for ul, the text being the li's own
ListLines(list) ==
    LET items == SelectSeq(descendants(list), LAMBDA e : e.nodeName = "li")
    IN  Flatten([i \in 1 .. Len(items) |->
                    (IF list.nodeName = "ol"
                     THEN <<ToString(i), ".">>
                     ELSE <<"-">>)
                    \o <<" ">> \o OwnData(items[i]) \o <<"\n">>])

\* the page's body, when it is made of lists only
ListsOnly(doc) ==
    /\ doc.contentType = "text/html"
    /\ body(doc) # {}
    /\ ~hasClass(TheOne(body(doc)), "sidebar")
    /\ Len(TheOne(body(doc)).childNodes) > 0
    /\ \A i \in 1 .. Len(TheOne(body(doc)).childNodes) :
          TheOne(body(doc)).childNodes[i].nodeName \in {"ol", "ul"}

\* C18: a list converts to one line per li, in document order, and nothing
\* else: "i. text" with i counted from 1 for ol, "- text" for ul, the text
\* of a line being its li's own.  So the markdown of a page made of lists is
\* the lines of its lists, and <ol><li>A</li><li>B</li></ol> gives exactly
\* "1. A\n2. B\n".
C18_OneLinePerListItem ==
    (/\ outcome.op = "convertHTMLToMarkdown"
     /\ ListsOnly(response.body)) =>
        /\ outcome.err = "none"
        /\ outcome.ret.markdown =
              Flatten([i \in 1 .. Len(TheOne(body(response.body)).childNodes)
                         |-> ListLines(
                                TheOne(body(response.body)).childNodes[i])])

\* the element is one the converter strips
Stripped(element) ==
    \/ element.nodeName \in {"script", "style", "nav", "header", "footer"}
    \/ hasClass(element, "advertisement")
    \/ hasClass(element, "sidebar")

\* the tree without the stripped elements and what is below them
RECURSIVE WithoutStripped(_)
WithoutStripped(node) ==
    IF isText(node)
    THEN node
    ELSE LET kept == SelectSeq(node.childNodes,
                               LAMBDA c : isText(c) \/ ~Stripped(c))
         IN  [node EXCEPT
                !.childNodes = [i \in 1 .. Len(kept) |->
                                   WithoutStripped(kept[i])]]

\* those of the elements that are candidates for content root, under the
\* n-th selector of the order article, main, .content, .post, .entry
Candidates(elements, n) ==
    SelectSeq(elements,
              LAMBDA e :
                 CASE n = 1 -> e.nodeName = "article"
                   [] n = 2 -> e.nodeName = "main"
                   [] n = 3 -> hasClass(e, "content")
                   [] n = 4 -> hasClass(e, "post")
                   [] n = 5 -> hasClass(e, "entry"))

\* the content root the order of the selectors gives: the first candidate of
\* the first selector that has one, and the body when none has
ContentRoot(doc) ==
    LET kept == descendants(WithoutStripped(doc))
        matching == {n \in 1 .. 5 : Len(Candidates(kept, n)) > 0}
    IN  IF matching = {}
        THEN SelectSeq(kept, LAMBDA e : e.nodeName = "body")
        ELSE <<Candidates(kept, CHOOSE n \in matching :
                                   \A m \in matching : n <= m)[1]>>

\* C19: the markdown of a page is the conversion of its content root: the
\* first element matched by the first of the selectors article, main,
\* .content, .post, .entry that matches anything once the stripped elements
\* are removed, and the body of the document when none matches.  When none
\* matches and the document has no body left, there is nothing to convert
\* and the conversion throws.
C19_ContentRootByPriority ==
    outcome.op = "convertHTMLToMarkdown" =>
       LET root == ContentRoot(response.body)
       IN  IF Len(root) = 0
           THEN outcome.err = "TypeError"
           ELSE /\ outcome.err = "none"
                /\ outcome.ret.markdown = htmlToMarkdown(root[1])

\* A page whose element of class content comes before its article has been
\* converted from the article.
C19_Witness ==
    /\ outcome.op = "convertHTMLToMarkdown"
    /\ outcome.err = "none"
    /\ response.body = Page(NoAttributes, <<"content", "article">>)
    /\ outcome.ret.markdown = Word(2, 1) \o <<"\n", "\n">>

\* the tokens of a text
Tokens(text) == {text[i] : i \in 1 .. Len(text)}

\* C20: no text of a script, style, nav, header or footer element, or of an
\* element of class advertisement or sidebar, is in the markdown of a page,
\* at whatever depth the element sits, inside the content root or around
\* it: the elements are removed before the content root is selected.
C20_StrippedTextAbsent ==
    (/\ outcome.op \in {"convertHTMLToMarkdown", "convertURL"}
     /\ response.kind = "response"
     /\ outcome.err = "none") =>
        LET elements == descendants(response.body)
        IN  \A i \in 1 .. Len(elements) :
               Stripped(elements[i]) =>
                  Tokens(textContent(elements[i]))
                     \cap Tokens(outcome.ret.markdown) = {}

\* A page whose article holds a script at depth two and whose nav holds an
\* article has been converted: from the article outside the nav, without
\* the script's text.
C20_Witness ==
    /\ outcome.op = "convertHTMLToMarkdown"
    /\ response.body = Page(NoAttributes, <<"navArticle", "articleScript">>)
    /\ outcome.err = "none"
    /\ outcome.ret.markdown =
          Word(2, 1) \o <<"\n", "\n">> \o Word(2, 3) \o <<"\n", "\n">>

\* the number N of a heading element hN, and 0 for any other node
Level(node) ==
    CASE node.nodeName = "h1" -> 1
      [] node.nodeName = "h2" -> 2
      [] node.nodeName = "h3" -> 3
      [] node.nodeName = "h4" -> 4
      [] node.nodeName = "h5" -> 5
      [] node.nodeName = "h6" -> 6
      [] OTHER -> 0

\* the elements the rule table names, besides the headings and p
OtherRules ==
    {"strong", "b", "em", "i", "a", "img", "ul", "ol", "blockquote", "code",
     "pre"}

\* the subtree holds text nodes, headings, paragraphs and elements outside
\* the rule table only
RECURSIVE Plain(_)
Plain(node) ==
    \/ isText(node)
    \/ /\ node.nodeName \notin OtherRules
       /\ \A i \in 1 .. Len(node.childNodes) : Plain(node.childNodes[i])

\* what the rules give for such a subtree: a text node verbatim, hN as N
\* '#', a space, its text and a blank line, p as its text and a blank line,
\* any other element as what its children give, in document order
RECURSIVE PlainMarkdown(_)
PlainMarkdown(node) ==
    IF isText(node)
    THEN node.data
    ELSE IF Level(node) > 0
         THEN [i \in 1 .. Level(node) |-> "#"] \o <<" ">>
              \o textContent(node) \o <<"\n", "\n">>
         ELSE IF node.nodeName = "p"
              THEN textContent(node) \o <<"\n", "\n">>
              ELSE Flatten([i \in 1 .. Len(node.childNodes) |->
                               PlainMarkdown(node.childNodes[i])])

\* C21: the markdown of a content root is the concatenation, in document
\* order, of what its child nodes give: a text node its text as it stands,
\* hN (N in 1..6) N '#', a space, its text and a blank line, p its text and a
\* blank line, an element outside the rule table what its own children give,
\* with nothing around it.
C21_RuleTable ==
    outcome.op = "convertHTMLToMarkdown" =>
       LET root == ContentRoot(response.body)
       IN  (Len(root) = 1 /\ Plain(root[1])) =>
              /\ outcome.err = "none"
              /\ outcome.ret.markdown = PlainMarkdown(root[1])

\* A page of a text node and a section holding an h2 and a p has been
\* converted: the text, then "## text" and the paragraph, each with its
\* blank line, and nothing for the section itself.
C21_Witness ==
    /\ outcome.op = "convertHTMLToMarkdown"
    /\ response.body = Page(NoAttributes, <<"text", "section">>)
    /\ outcome.err = "none"
    /\ outcome.ret.markdown =
          Word(1, 1) \o <<"#", "#", " ">> \o Word(2, 1) \o <<"\n", "\n">>
          \o Word(2, 2) \o <<"\n", "\n">>

\* sub occurs in s as a run of consecutive tokens
Occurs(sub, s) ==
    \E i \in 0 .. Len(s) - Len(sub) : SubSeq(s, i + 1, i + Len(sub)) = sub

\* the inline constructs, and the elements that start a block
InlineConstructs == {"strong", "b", "em", "i", "a", "img", "li"}

BlockLevel ==
    {"p", "div", "section", "blockquote", "ul", "ol", "h1", "h2", "h3",
     "h4", "h5", "h6"}

\* the flattened text of a node: the text nodes below it, in document order
RECURSIVE FlatText(_)
FlatText(node) ==
    IF isText(node)
    THEN node.data
    ELSE Flatten([i \in 1 .. Len(node.childNodes) |->
                     FlatText(node.childNodes[i])])

\* the markdown of an inline construct around its flattened text, with no
\* syntax for the elements nested in it
InlineMarkdown(el) ==
    CASE el.nodeName \in {"strong", "b"} ->
           <<"*", "*">> \o FlatText(el) \o <<"*", "*">>
      [] el.nodeName \in {"em", "i"} ->
           <<"*">> \o FlatText(el) \o <<"*">>
      [] el.nodeName = "a" ->
           <<"[">> \o FlatText(el) \o <<"]", "(">>
           \o getAttribute(el, "href") \o <<")">>
      [] el.nodeName = "img" ->
           <<"!", "[">> \o getAttribute(el, "alt") \o <<"]", "(">>
           \o getAttribute(el, "src") \o <<")">>
      [] el.nodeName = "li" ->
           <<"-", " ">> \o FlatText(el) \o <<"\n">>

\* the inline constructs nested in the node through elements of these names
\* only, outermost first
RECURSIVE Through(_, _)
Through(node, names) ==
    Flatten([i \in 1 .. Len(node.childNodes) |->
        LET c == node.childNodes[i]
        IN  IF isText(c)
            THEN <<>>
            ELSE IF c.nodeName \in InlineConstructs
                 THEN <<c>>
                 ELSE IF c.nodeName \in names
                      THEN Through(c, names)
                      ELSE <<>>])

\* the pages whose content root is their body and that hold no ordered list
RunningText(doc, root) ==
    /\ doc.contentType = "text/html"
    /\ ~Contains(doc, "ol")
    /\ Len(root) = 1
    /\ root[1].nodeName = "body"

Recursing == {"div", "section", "span", "aside", "ul"}

-----------------------------------------------------------------------------
(* The summarizer's contract *)

\* 'Please enter your OpenRouter API key'
KeyMissing == <<"Please enter your OpenRouter API key">>

\* C23: a summarizeText call made with an empty API key fails with
\* MissingCredential, and no request is issued for it: every request in
\* flight carries a key.  A handleSummarize of the view that found the key
\* empty has issued no request of the view and has left isLoading false.
C23_NoRequestWithoutKey ==
    /\ (outcome.op = "summarizeText" /\ outcome.request.apiKey = <<>>) =>
          outcome.err = "MissingCredential"
    /\ summarizeTask.pc = "fetching" =>
          summarizeTask.request.apiKey # <<>>
    /\ error = KeyMissing =>
          /\ ~isLoading
          /\ summarizeTask.pc = "fetching" => summarizeTask.caller # "view"

\* The view has been asked for a summary without a key, and the service has
\* been called without a key.
C23_Witness ==
    /\ articleToSummarize # {}
    /\ apiKey = <<>>
    /\ error = KeyMissing
    /\ ~isLoading
    /\ summarizeTask.pc = "idle"
    /\ outcome.op = "summarizeText"
    /\ outcome.request.apiKey = <<>>
    /\ outcome.err = "MissingCredential"

\* C24: a summarizeText call whose request got a response of a non-2xx
\* status fails with an error that carries the status text of the response
\* and returns no summary; one whose request got a response of a 2xx status
\* returns a summary that is not empty.
C24_StatusDecides ==
    (/\ outcome.op = "summarizeText"
     /\ HasField(outcome, "res")
     /\ outcome.res.kind = "response") =>
        IF ~outcome.res.ok
        THEN /\ outcome.err # "none"
             /\ outcome.message =
                   <<"API request failed: ">> \o outcome.res.statusText
             /\ ~HasField(outcome, "ret")
        ELSE /\ outcome.err = "none"
             /\ outcome.ret # <<>>

\* What the last save of a setting gave, or the fixed default of a setting
\* never saved.
Last(key, default) ==
    IF lastSaved[key] = {} THEN default ELSE TheOne(lastSaved[key])

\* C25: after any sequence of saveApiKey, savePreferredModel,
\* saveSelectedPrompt and saveCustomPrompts calls, each getter returns what
\* the most recent save of its own setting gave, whatever was saved to the
\* other settings since, and the fixed default of a setting never saved.
C25_LastWriteWins ==
    /\ getApiKey(localStorage) = Last("openrouter_api_key", <<>>)
    /\ getPreferredModel(localStorage)
          = Last("preferred_ai_model", DefaultModel)
    /\ getSelectedPrompt(localStorage)
          = Last("selected_prompt", DefaultPromptId)
    /\ getCustomPrompts(localStorage) = Last("custom_prompts", <<>>)

-----------------------------------------------------------------------------
(* The application's contract: notifications, start-up, loading *)

\* A save-to-knowledge action of the URL fetcher, of the Notes Editor or of
\* the AI summarizer, the latter before and after its await.
SaveToKnowledgeAction ==
    \/ URLFetcher_handleSaveToKnowledge
    \/ saveToKnowledge
    \/ AISummarizer_handleSaveToKnowledge
    \/ AISummarizer_onSaveToKnowledge

\* C26: when the store write of a save-to-knowledge action fails, the
\* action shows an error notification and no success notification, and the
\* rejection is handled.
C26_StoreFailureSurfaced ==
    [][(SaveToKnowledgeAction /\ result'.err # "none") =>
          (notice'.toast = "error" /\ ~notice'.unhandled)]_vars

\* C27: a view whose mount effect has just read the store (getFeeds,
\* getArticles) has done so on a store whose init has completed.
C27_ReadsAfterInit ==
    notice.load # "none" => (db = "open" /\ opening = 0)

\* C28: on a ready store a step of a save-to-knowledge action adds at most
\* one article record, and a click on the AI summarizer's save button adds
\* exactly one: once its awaited saveArticle has stored the summary, the
\* rest of the handler adds no further record.
C28_OneRecordPerSave ==
    [][/\ (SaveToKnowledgeAction /\ db = "open") =>
             Cardinality(articles') <= Cardinality(articles) + 1
       /\ AISummarizer_onSaveToKnowledge =>
             Cardinality(articles') = Cardinality(articles)]_vars

\* The article a send of RSSReader has handed to the editor or to the
\* summarizer.
Sent ==
    IF RSSReader_handleSendToEditor THEN TheOne(currentArticle')
    ELSE TheOne(articleToSummarize')

\* C29: a send of a feed article to the editor or to the summarizer writes
\* that article to the store with isRead true: the write succeeds, the
\* article was a stored record when it was written, no record is added, the
\* record differs afterwards in isRead at most, every other record is as it
\* was, and writing it once more changes nothing.
C29_SendMarksRead ==
    [][(RSSReader_handleSendToEditor \/ RSSReader_handleSendToSummarizer) =>
          LET marked == [f \in DOMAIN Sent |->
                            IF f = "isRead" THEN TRUE ELSE Sent[f]]
          IN  /\ result'.op = "updateArticle"
              /\ result'.err = "none"
              /\ Sent \in articles
              /\ marked \in articles'
              /\ Cardinality(articles') = Cardinality(articles)
              /\ articles' \ {marked} = articles \ {Sent}
              /\ {r \in articles' : r.id # marked.id} \cup {marked}
                    = articles']_vars

\* Two articles are stored; one was sent to the editor unread and is stored
\* read, the other is as it was.
C29_Witness ==
    /\ activeTab = "editor"
    /\ result.op = "updateArticle"
    /\ currentArticle # {}
    /\ ~TheOne(currentArticle).isRead
    /\ \E r \in articles :
          /\ r.id = TheOne(currentArticle).id
          /\ r.isRead
    /\ \E r \in articles :
          /\ r.id # TheOne(currentArticle).id
          /\ ~r.isRead

\* The application where every request that is in flight settles: the
\* continuation of each await of addFeed, of the conversions and of
\* handleSummarize is taken at last.
AppLiveSpec ==
    /\ AppSpec
    /\ WF_vars(addFeedSaveFeed)
    /\ WF_vars(addFeedSaveArticle)
    /\ WF_vars(addFeedDone)
    /\ WF_vars(convertSingleUrlDone)
    /\ WF_vars(convertBatchUrlsNext)
    /\ WF_vars(convertBatchUrlsDone)
    /\ WF_vars(handleSummarizeSettled)

\* The operation of the mounted view that is in flight, if any: an addFeed
\* of RSSReader, a conversion of URLFetcher, a handleSummarize of
\* AISummarizer.
InFlight ==
    \/ activeTab = "rss" /\ addFeedTask.pc # "idle" /\ addFeedTask.mounted
    \/ activeTab = "fetch" /\ convertTask.pc # "idle" /\ convertTask.mounted
    \/ /\ activeTab = "summarize"
       /\ summarizeTask.pc # "idle"
       /\ summarizeTask.mounted

\* C30: the isLoading of the mounted view is true only while an addFeed, a
\* convertSingleUrl, a convertBatchUrls or a handleSummarize of that view is
\* in flight; it is false as soon as the operation has settled, however it
\* settled; and, every request settling at last, a view that is loading
\* stops loading.
C30_LoadingWhileInFlight ==
    /\ [](isLoading => InFlight)
    /\ [][(InFlight /\ ~InFlight') => ~isLoading']_vars
    /\ isLoading ~> ~isLoading

\* An addFeed has failed at saveFeed, on a store that is not initialized, in
\* the view that started it: the view is not loading and keeps the URL.
C30_Witness ==
    /\ activeTab = "rss"
    /\ addFeedTask.pc = "idle"
    /\ newFeedUrl # <<>>
    /\ result.op = "saveFeed"
    /\ result.err = "NotInitialized"
    /\ ~isLoading

====
